---- MODULE Spec2Model ----
(***************************************************************************)
(* Verification model of damianmarti/se2-projects: the data-collection     *)
(* scripts (packages/scripts/src) that fill the repositories table and the *)
(* dashboard's endpoints (packages/nextjs/app/api/repositories).           *)
(*                                                                         *)
(* One table, `repositories`, is shared by every part.  Each part of the   *)
(* program has its own specification (SpecUpsert, SpecFetch, SpecScrape,   *)
(* SpecOnline, SpecList, SpecExport, SpecFilename, SpecShutdown,           *)
(* SpecImport, SpecMap, SpecDelay, SpecHead); the variables of the other   *)
(* parts stay at their idle values in it.                                  *)
(*                                                                         *)
(* Conventions: a nullable value is a sequence of length at most one       *)
(* (Null = <<>>, Some(v) = <<v>>); text that is searched or sorted is a    *)
(* sequence of one-character strings; a timestamp is a natural number; a   *)
(* Postgres array whose order and duplicates are never read is a set.      *)
(***************************************************************************)
EXTENDS Integers, Sequences, FiniteSets, TLC

VARIABLES
    \* ---- the database (repositories.sql) and its clock
    repositories,     \* the rows of table repositories
    seq,              \* last value handed out by the SERIAL sequence of id
    now,              \* the database clock read by NOW()
    \* ---- history of upsertRepository calls
    upserted,         \* full_names whose upsertRepository call completed
    call,             \* the last completed upsertRepository call
    directCalls,      \* upsertRepository calls made by the concurrent script
    \* ---- processRepositories (common.ts)
    prList,           \* its argument `repositories`
    prI,              \* loop index i, 1-based
    prPc,             \* "idle", "select", "upsert", "done"
    prExisting,       \* existingRepo.rows.length > 0
    savedCount,
    updatedCount,
    prTried,          \* indices whose try block was entered, in order
    prFailed,         \* indices whose try block ended in the catch
    \* ---- the enrichment loop of scrape-dependents.ts and fetchRepoMeta
    enList,           \* uniqueResults
    enI,              \* loop index i, 1-based
    enPc,             \* "idle", "fetch", "sleep", "pace", "done", "crashed"
    enriched,         \* the RepositoryData collected so far
    fmSent,           \* requests sent by the current fetchRepoMeta call
    fm403,            \* 403 answers received by the current call
    fmLog,            \* per finished call: what it was answered last and returned
    \* ---- the pagination loop of scrape-dependents.ts / .js
    scPc,             \* "idle", "wait", "scrape", "next", "done", "crashed"
    pageUrl,          \* page.url()
    visitedUrls,
    pageNum,
    results,
    scNavigated,      \* the next hrefs handed to page.goto, in order
    scStop,           \* why the loop ended: "timeout", "repeat", "nonext", "goto"
    \* ---- the online check (main of the check-online script)
    olRows,           \* rows, as loaded by the SELECT ... ORDER BY id
    olI,              \* loop index i, 1-based
    olPc,             \* "idle", "load", "head", "tree", "done"
    olStatus,         \* res.status of the row being checked
    markedDeleted,
    restored,
    unchanged,
    errors,
    deletedNoScaffoldConfig,
    olLog,            \* per checked row: what was answered and what was written
    \* ---- one request to the list endpoint GET /api/repositories
    lsPc,             \* "idle", "count", "rows", "done"
    lsRequest,        \* the query parameters page, limit, sortBy, sortOrder, search
    totalCount,       \* parseInt(countResult.rows[0].count)
    lsQueries,        \* the statements handed to client.query, text and parameters
    lsResponse,       \* the JSON body and status sent back
    lsCountTable,     \* the table as the count query saw it
    lsRowsTable,      \* the table as the rows query saw it
    \* ---- one request to the export endpoint GET /api/repositories/export
    exPc,             \* "idle", "connect", "query", "done"
    exClient,         \* the pooled client: "none", "held", "released"
    exResponse,       \* the body and status sent back
    \* ---- main of search-by-filename.ts
    fsEnv,            \* process.env.REQUIRED_PATH
    fsPc,             \* "idle", "search", "collected", "exited"
    fsShard,          \* position in shards, 1-based
    fsSize,           \* position in sizeShards, 1-based
    fsPage,           \* page
    fsRepos,          \* repos, the Set of accepted full_names
    fsSeen,           \* every item the searches returned
    fsList,            \* Array.from(repos)
    \* ---- a script that called setupGracefulShutdown, and the signals sent to it
    gsRows,           \* rows.length of the script that runs
    gsI,              \* loop index i, 1-based
    gsPc,             \* where main awaits: "idle", "parse", "exists", "fetch", "upsert", "delay", "returned"
    gsPool,           \* the pool: "open", "ending", "ended"
    gsInFlight,       \* a pool.query of main has a client checked out
    gsHandler,        \* a signal handler awaits pool.end(): "none", "awaiting"
    gsSignals,        \* the signals received, in order
    gsExit,            \* how the process ended: its exit code and what ended it
    \* ---- main of the CSV import
    imRows,           \* rows, as parseCSV read them
    imI,              \* loop index i, 1-based
    imPc,             \* where main awaits: "idle", "parse", "exists", "fetch", "upsert", "delay", "done"
    processedCount,   \* processedCount
    skippedCount,     \* skippedCount
    imSavedCount,     \* savedCount of the import
    errorCount,       \* errorCount
    imLog,             \* per row: what the table held, what was fetched and what was written
    \* ---- one call of mapWithConcurrency (fetch-dependents-api.ts)
    mcPc,             \* "idle", "call", "called"
    mcItems,          \* items.length
    mcLimit,          \* limit
    mcIdx,            \* idx, 0-based as in the code
    mcActive,         \* active
    mcMapper,         \* per index the mapper call: "none", "running", "fulfilled", "rejected", "handled", "finished"
    mcResults,        \* results
    mcPromise,         \* the returned promise: "pending", "resolved", "rejected"
    \* ---- the rate-limit backoff of fetchRepoMeta (common.ts), with its clock
    dlPc,             \* "idle", "fetch", "sleep", "done"
    dlNowMs,          \* Date.now()
    dlReset,          \* the x-ratelimit-reset header of the last 403 answer
    dlNowSec,         \* nowSec, as computed for the last 403 answer
    dlDelay,          \* the argument of delay(), NaN being Null
    dl403,             \* 403 answers received so far
    \* ---- one call of headWithRetry (check-online script)
    hrMax,            \* maxRetries
    hrAttempt,        \* attempt
    hrPc,             \* "idle", "call", "head", "get", "wait", "final", "returned", "thrown"
    hrLog,            \* the requests answered and the delays started, in order
    hrResult          \* the response returned

upVars == <<repositories, seq, now, upserted, call, directCalls>>
prVars == <<prList, prI, prPc, prExisting, savedCount, updatedCount, prTried, prFailed>>
fmVars == <<enList, enI, enPc, enriched, fmSent, fm403, fmLog>>
scVars == <<scPc, pageUrl, visitedUrls, pageNum, results, scNavigated, scStop>>
olVars == <<olRows, olI, olPc, olStatus, markedDeleted, restored, unchanged, errors,
            deletedNoScaffoldConfig, olLog>>
lsVars == <<lsPc, lsRequest, totalCount, lsQueries, lsResponse, lsCountTable, lsRowsTable>>
exVars == <<exPc, exClient, exResponse>>
fsVars == <<fsEnv, fsPc, fsShard, fsSize, fsPage, fsRepos, fsSeen, fsList>>
gsVars == <<gsRows, gsI, gsPc, gsPool, gsInFlight, gsHandler, gsSignals, gsExit>>
imVars == <<imRows, imI, imPc, processedCount, skippedCount, imSavedCount, errorCount, imLog>>
mcVars == <<mcPc, mcItems, mcLimit, mcIdx, mcActive, mcMapper, mcResults, mcPromise>>
dlVars == <<dlPc, dlNowMs, dlReset, dlNowSec, dlDelay, dl403>>
hrVars == <<hrMax, hrAttempt, hrPc, hrLog, hrResult>>
vars == <<upVars, prVars, fmVars, scVars, olVars, lsVars, exVars, fsVars, gsVars, imVars, mcVars, dlVars, hrVars>>

\* what the steps of one part leave alone
exceptUpsert == <<fmVars, scVars, olVars, lsVars, exVars, fsVars, gsVars, imVars, mcVars, dlVars, hrVars>>
exceptFetch == <<upVars, prVars, scVars, olVars, lsVars, exVars, fsVars, gsVars, imVars, mcVars, dlVars, hrVars>>
exceptScrape == <<upVars, prVars, fmVars, olVars, lsVars, exVars, fsVars, gsVars, imVars, mcVars, dlVars, hrVars>>
exceptOnline == <<seq, upserted, call, directCalls, prVars, fmVars, scVars, lsVars, exVars, fsVars, gsVars, imVars, mcVars, dlVars, hrVars>>
exceptList == <<prVars, fmVars, scVars, olVars, exVars, fsVars, gsVars, imVars, mcVars, dlVars, hrVars>>
exceptExport == <<upVars, prVars, fmVars, scVars, olVars, lsVars, fsVars, gsVars, imVars, mcVars, dlVars, hrVars>>
exceptFilename == <<upVars, prVars, fmVars, scVars, olVars, lsVars, exVars, gsVars, imVars, mcVars, dlVars, hrVars>>
exceptShutdown == <<upVars, prVars, fmVars, scVars, olVars, lsVars, exVars, fsVars, imVars, mcVars, dlVars, hrVars>>
exceptImport == <<directCalls, prVars, fmVars, scVars, olVars, lsVars, exVars, fsVars, gsVars, mcVars, dlVars, hrVars>>
exceptMap == <<upVars, prVars, fmVars, scVars, olVars, lsVars, exVars, fsVars, gsVars, imVars, dlVars, hrVars>>
exceptDelay == <<upVars, prVars, fmVars, scVars, olVars, lsVars, exVars, fsVars, gsVars, imVars, mcVars, hrVars>>
exceptHead == <<upVars, prVars, fmVars, scVars, olVars, lsVars, exVars, fsVars, gsVars, imVars, mcVars, dlVars>>

-----------------------------------------------------------------------------
(* Bounds of the model *)

MaxMeta == 2        \* distinct metadata versions GitHub reports for a repository
MaxLen == 2         \* longest list handed to processRepositories
MaxDirect == 1      \* upsertRepository calls of the concurrent script
Max403 == 2         \* 403 answers the server gives to one fetchRepoMeta call
MaxHref == 3        \* distinct URLs the dependents pages link to

-----------------------------------------------------------------------------
(* Values *)

Null == <<>>
Some(v) == <<v>>

RECURSIVE SeqsUpTo(_, _)
SeqsUpTo(S, n) ==
    IF n = 0 THEN {<<>>}
    ELSE LET shorter == SeqsUpTo(S, n - 1)
         IN  shorter \cup {Append(s, x) : s \in {t \in shorter : Len(t) = n - 1}, x \in S}

Range(s) == {s[k] : k \in 1..Len(s)}

\* owner and name of the repositories GitHub knows; full_name is owner/name
Owners == {<<"a">>, <<"B">>}
RepoName(owner) == IF owner = <<"a">> THEN <<"x", "b">> ELSE <<"_", "a">>
FullName(owner) == owner \o <<"/">> \o RepoName(owner)
FullNames == {FullName(o) : o \in Owners}
OwnerOf(fn) == CHOOSE o \in Owners : FullName(o) = fn

\* RepositoryData as the scripts build it from a GitHub response; v selects
\* the metadata version: counts and dates move, the homepage is a URL, the
\* empty string or absent, and the source tag is the calling script's.
HomepageOf(v) ==
    CASE v % 3 = 1 -> Some("https://h")
      [] v % 3 = 2 -> Some("")
      [] OTHER     -> Null
SourceOf(v) == IF v % 2 = 1 THEN {"scrape-dependents"} ELSE {"csv-import"}

RepositoryData(fn, v) ==
    [full_name  |-> fn,
     name       |-> RepoName(OwnerOf(fn)),
     owner      |-> OwnerOf(fn),
     url        |-> v,
     homepage   |-> HomepageOf(v),
     stars      |-> v,
     forks      |-> v + 1,
     created_at |-> v,
     updated_at |-> v + 2,
     source     |-> SourceOf(v)]

RepoInputs == {RepositoryData(fn, v) : fn \in FullNames, v \in 1..MaxMeta}

-----------------------------------------------------------------------------
(* upsertRepository: one INSERT ... ON CONFLICT (full_name) DO UPDATE        *)

\* repo.homepage || null : undefined, null and "" all become NULL
OrNull(h) == IF h = Null \/ h = Some("") THEN Null ELSE h

\* the VALUES list: the row an INSERT creates; id, saved_at, deleted_at and
\* default_branch take their column defaults
InsertedRow(repo, id, t) ==
    [id             |-> id,
     full_name      |-> repo.full_name,
     name           |-> repo.name,
     owner          |-> repo.owner,
     url            |-> repo.url,
     homepage       |-> OrNull(repo.homepage),
     stars          |-> Some(repo.stars),
     forks          |-> Some(repo.forks),
     created_at     |-> Some(repo.created_at),
     updated_at     |-> Some(repo.updated_at),
     source         |-> repo.source,
     last_seen      |-> Some(t),
     saved_at       |-> Some(t),
     deleted_at     |-> Null,
     default_branch |-> Null]

\* DO UPDATE SET ... : EXCLUDED is the row the INSERT proposed
ReplaceSource(old, excluded) == excluded
MergeSource(old, excluded) == old \cup excluded

ConflictUpdate(row, repo, t) ==
    [row EXCEPT
        !.stars      = Some(repo.stars),
        !.forks      = Some(repo.forks),
        !.updated_at = Some(repo.updated_at),
        !.homepage   = OrNull(repo.homepage),
        !.source     = MergeSource(row.source, repo.source),
        !.last_seen  = Some(t)]

Conflicting(table, repo) == {r \in table : r.full_name = repo.full_name}

\* the statement without its ON CONFLICT clause
InsertAlways(table, repo, id, t) == table \cup {InsertedRow(repo, id, t)}

InsertOnConflictUpdate(table, repo, id, t) ==
    LET ex == Conflicting(table, repo)
    IN  IF ex = {}
        THEN table \cup {InsertedRow(repo, id, t)}
        ELSE (table \ ex) \cup {ConflictUpdate(r, repo, t) : r \in ex}

\* await pool.query(query, values) resolving: the statement runs atomically;
\* the sequence is advanced whether or not the row conflicts
upsertRepository(repo) ==
    /\ repositories' = InsertOnConflictUpdate(repositories, repo, seq + 1, now + 1)
    /\ seq' = seq + 1
    /\ now' = now + 1
    /\ upserted' = upserted \cup {repo.full_name}
    /\ call' = Some([repo |-> repo, old |-> Conflicting(repositories, repo), at |-> now + 1])

\* a statement that throws changes nothing
QueryFails == UNCHANGED <<repositories, seq, now, upserted, call>>

-----------------------------------------------------------------------------
(* processRepositories                                                       *)

\* the catch block: log the error, then the for loop goes on with i + 1
Rethrow(i) ==
    /\ prPc' = "thrown"
    /\ prI' = prI
    /\ prFailed' = prFailed \cup {i}

CatchAndContinue(i) ==
    /\ prPc' = "select"
    /\ prI' = prI + 1
    /\ prFailed' = prFailed \cup {i}

\* SELECT full_name FROM repositories WHERE full_name = $1
PR_Select(ok) ==
    /\ prPc = "select"
    /\ prI <= Len(prList)
    /\ prTried' = Append(prTried, prI)
    /\ IF ok
       THEN /\ prExisting' = (Conflicting(repositories, prList[prI]) # {})
            /\ prPc' = "upsert"
            /\ UNCHANGED <<prI, prFailed>>
       ELSE /\ CatchAndContinue(prI)
            /\ UNCHANGED prExisting
    /\ UNCHANGED <<upVars, prList, savedCount, updatedCount, exceptUpsert>>

\* await upsertRepository(repo), then the counters
PR_Upsert(ok) ==
    /\ prPc = "upsert"
    /\ IF ok
       THEN /\ upsertRepository(prList[prI])
            /\ IF prExisting
               THEN updatedCount' = updatedCount + 1 /\ UNCHANGED savedCount
               ELSE savedCount' = savedCount + 1 /\ UNCHANGED updatedCount
            /\ prPc' = "select"
            /\ prI' = prI + 1
            /\ UNCHANGED prFailed
       ELSE /\ QueryFails
            /\ CatchAndContinue(prI)
            /\ UNCHANGED <<savedCount, updatedCount>>
    /\ UNCHANGED <<directCalls, prList, prExisting, prTried, exceptUpsert>>

\* the loop condition fails: return { savedCount, updatedCount }
PR_Return ==
    /\ prPc = "select"
    /\ prI > Len(prList)
    /\ prPc' = "done"
    /\ UNCHANGED <<upVars, prList, prI, prExisting, savedCount, updatedCount, prTried, prFailed,
                   exceptUpsert>>

\* another script (the CSV import) calling upsertRepository at the same time
DirectUpsert(repo) ==
    /\ directCalls < MaxDirect
    /\ directCalls' = directCalls + 1
    /\ upsertRepository(repo)
    /\ UNCHANGED <<prVars, exceptUpsert>>

\* the state of each part before it is started
IdleUpsert ==
    /\ upserted = {}
    /\ call = Null
    /\ directCalls = 0
    /\ prList = <<>>
    /\ prI = 1
    /\ prPc = "idle"
    /\ prExisting = FALSE
    /\ savedCount = 0
    /\ updatedCount = 0
    /\ prTried = <<>>
    /\ prFailed = {}

IdleFetch ==
    /\ enList = <<>>
    /\ enI = 1
    /\ enPc = "idle"
    /\ enriched = <<>>
    /\ fmSent = 0
    /\ fm403 = 0
    /\ fmLog = <<>>

IdleScrape ==
    /\ scPc = "idle"
    /\ pageUrl = 1
    /\ visitedUrls = {}
    /\ pageNum = 1
    /\ results = <<>>
    /\ scNavigated = <<>>
    /\ scStop = ""

IdleOnline ==
    /\ olRows = <<>>
    /\ olI = 1
    /\ olPc = "idle"
    /\ olStatus = 0
    /\ markedDeleted = 0
    /\ restored = 0
    /\ unchanged = 0
    /\ errors = 0
    /\ deletedNoScaffoldConfig = 0
    /\ olLog = <<>>

IdleList ==
    /\ lsPc = "idle"
    /\ lsRequest = Null
    /\ totalCount = 0
    /\ lsQueries = <<>>
    /\ lsResponse = Null
    /\ lsCountTable = {}
    /\ lsRowsTable = {}

IdleExport ==
    /\ exPc = "idle"
    /\ exClient = "none"
    /\ exResponse = Null

IdleFilename ==
    /\ fsEnv = Null
    /\ fsPc = "idle"
    /\ fsShard = 1
    /\ fsSize = 1
    /\ fsPage = 1
    /\ fsRepos = {}
    /\ fsSeen = {}
    /\ fsList = <<>>

IdleShutdown ==
    /\ gsRows = 0
    /\ gsI = 1
    /\ gsPc = "idle"
    /\ gsPool = "open"
    /\ gsInFlight = FALSE
    /\ gsHandler = "none"
    /\ gsSignals = <<>>
    /\ gsExit = Null

IdleImport ==
    /\ imRows = <<>>
    /\ imI = 1
    /\ imPc = "idle"
    /\ processedCount = 0
    /\ skippedCount = 0
    /\ imSavedCount = 0
    /\ errorCount = 0
    /\ imLog = <<>>

IdleMap ==
    /\ mcPc = "idle"
    /\ mcItems = 0
    /\ mcLimit = 0
    /\ mcIdx = 0
    /\ mcActive = 0
    /\ mcMapper = <<>>
    /\ mcResults = <<>>
    /\ mcPromise = "pending"

IdleDelay ==
    /\ dlPc = "idle"
    /\ dlNowMs = 0
    /\ dlReset = Null
    /\ dlNowSec = 0
    /\ dlDelay = Null
    /\ dl403 = 0

IdleHead ==
    /\ hrMax = 0
    /\ hrAttempt = 0
    /\ hrPc = "idle"
    /\ hrLog = <<>>
    /\ hrResult = Null

EmptyDatabase ==
    /\ repositories = {}
    /\ seq = 0
    /\ now = 0

InitUpsert ==
    /\ IdleHead
    /\ IdleDelay
    /\ IdleMap
    /\ IdleImport
    /\ IdleShutdown
    /\ IdleFilename
    /\ IdleExport
    /\ EmptyDatabase
    /\ IdleList
    /\ IdleFetch
    /\ IdleScrape
    /\ IdleOnline
    /\ upserted = {}
    /\ call = Null
    /\ directCalls = 0
    /\ prList \in SeqsUpTo(RepoInputs, MaxLen)
    /\ prI = 1
    /\ prPc = "select"
    /\ prExisting = FALSE
    /\ savedCount = 0
    /\ updatedCount = 0
    /\ prTried = <<>>
    /\ prFailed = {}

NextUpsert ==
    \/ \E ok \in BOOLEAN : PR_Select(ok)
    \/ \E ok \in BOOLEAN : PR_Upsert(ok)
    \/ PR_Return
    \/ \E repo \in RepoInputs : DirectUpsert(repo)

SpecUpsert == InitUpsert /\ [][NextUpsert]_vars

-----------------------------------------------------------------------------
(* Claims about upsertRepository and processRepositories (SpecUpsert)        *)

RowsOf(fn) == {r \in repositories : r.full_name = fn}

\* C1: after any sequence of upsertRepository calls, interleaved between the
\* scripts, the table holds exactly one row for each full_name that was
\* upserted (and none for the others), and no two rows share an id.
C1_OneRowPerFullName ==
    /\ \A fn \in FullNames :
          Cardinality(RowsOf(fn)) = IF fn \in upserted THEN 1 ELSE 0
    /\ \A r1, r2 \in repositories : r1.id = r2.id => r1 = r2

\* a full_name upserted more than once, by both scripts, next to another one
C1_Witness ==
    /\ upserted = FullNames
    /\ seq > Cardinality(FullNames)
    /\ directCalls > 0
    /\ savedCount + updatedCount > 0

TheCall == call[1]
TheRow == CHOOSE r \in repositories : r.full_name = TheCall.repo.full_name
TheOld == CHOOSE r \in TheCall.old : TRUE

\* an optional homepage that is absent or empty is stored as NULL
SameHomepage(stored, supplied) ==
    IF supplied = Null \/ supplied = Some("") THEN stored = Null ELSE stored = supplied

InsertedWithAllMetadata(row, repo) ==
    /\ row.full_name = repo.full_name
    /\ row.name = repo.name
    /\ row.owner = repo.owner
    /\ row.url = repo.url
    /\ SameHomepage(row.homepage, repo.homepage)
    /\ row.stars = Some(repo.stars)
    /\ row.forks = Some(repo.forks)
    /\ row.created_at = Some(repo.created_at)
    /\ row.updated_at = Some(repo.updated_at)
    /\ row.source = repo.source

UpdatedWithLatest(row, repo, t) ==
    /\ row.stars = Some(repo.stars)
    /\ row.forks = Some(repo.forks)
    /\ row.updated_at = Some(repo.updated_at)
    /\ row.last_seen = Some(t)

C4_FailuresDoNotStopTheRun ==
    /\ prPc # "thrown"
    /\ Len(prTried) <= Len(prList)
    /\ \A k \in 1..Len(prTried) : prTried[k] = k
    /\ prFailed \subseteq Range(prTried)
    /\ prPc = "done" =>
          /\ Len(prTried) = Len(prList)
          /\ savedCount + updatedCount = Len(prList) - Cardinality(prFailed)

\* the first repository failed and the run still reached the last one
C4_Witness ==
    /\ prPc = "done"
    /\ Len(prList) >= 2
    /\ 1 \in prFailed
    /\ Len(prList) \notin prFailed
    /\ savedCount + updatedCount > 0

-----------------------------------------------------------------------------
(* fetchRepoMeta and the enrichment loop that calls it                       *)

Statuses == {200, 403, 404, 429}

\* Response.ok
IsOk(status) == status >= 200 /\ status <= 299

\* lists without duplicates: Array.from(new Set(results))
NoDuplicates(s) == \A j, k \in 1..Len(s) : s[j] = s[k] => j = k

\* the 403 branch: after the delay, return fetchRepoMeta(fullName)
ReturnNullOn403 ==
    /\ enPc' = "pace"
    /\ fmLog' = Append(fmLog, [status |-> 403, result |-> "null", sent |-> fmSent,
                               got403 |-> fm403 + 1])
    /\ UNCHANGED <<fm403, enriched>>

SleepThenRetry ==
    /\ enPc' = "sleep"
    /\ fm403' = fm403 + 1
    /\ UNCHANGED <<fmLog, enriched>>

\* the server answers the request in flight
FM_Respond(status, v) ==
    /\ enPc = "fetch"
    /\ status = 403 => fm403 < Max403
    /\ IF status = 403
       THEN SleepThenRetry
       ELSE IF ~IsOk(status)
       THEN \* return null: the repository is not enriched
            /\ enPc' = "pace"
            /\ fmLog' = Append(fmLog, [status |-> status, result |-> "null",
                                       sent |-> fmSent, got403 |-> fm403])
            /\ UNCHANGED <<fm403, enriched>>
       ELSE \* return res.json(), pushed with source ['scrape-dependents']
            /\ enPc' = "pace"
            /\ fmLog' = Append(fmLog, [status |-> status, result |-> "meta",
                                       sent |-> fmSent, got403 |-> fm403])
            /\ enriched' = Append(enriched,
                  [RepositoryData(enList[enI], v) EXCEPT !.source = {"scrape-dependents"}])
            /\ UNCHANGED fm403
    /\ UNCHANGED <<enList, enI, fmSent, exceptFetch>>

\* fetch() rejects: nothing catches it and the script dies
FM_NetworkError ==
    /\ enPc = "fetch"
    /\ enPc' = "crashed"
    /\ UNCHANGED <<enList, enI, enriched, fmSent, fm403, fmLog, exceptFetch>>

\* the delay after a 403 is over: the same request is sent again
FM_Retry ==
    /\ enPc = "sleep"
    /\ enPc' = "fetch"
    /\ fmSent' = fmSent + 1
    /\ UNCHANGED <<enList, enI, enriched, fm403, fmLog, exceptFetch>>

\* delay(800) is over: the loop goes on with the next repository
EN_Next ==
    /\ enPc = "pace"
    /\ enI' = enI + 1
    /\ IF enI + 1 <= Len(enList)
       THEN enPc' = "fetch" /\ fmSent' = 1 /\ fm403' = 0
       ELSE enPc' = "done" /\ fmSent' = 0 /\ fm403' = 0
    /\ UNCHANGED <<enList, enriched, fmLog, exceptFetch>>

InitFetch ==
    /\ IdleHead
    /\ IdleDelay
    /\ IdleMap
    /\ IdleImport
    /\ IdleShutdown
    /\ IdleFilename
    /\ IdleExport
    /\ EmptyDatabase
    /\ IdleList
    /\ IdleUpsert
    /\ IdleScrape
    /\ IdleOnline
    /\ enList \in {l \in SeqsUpTo(FullNames, MaxLen) : NoDuplicates(l)}
    /\ enI = 1
    /\ enPc = IF enList = <<>> THEN "done" ELSE "fetch"
    /\ enriched = <<>>
    /\ fmSent = IF enList = <<>> THEN 0 ELSE 1
    /\ fm403 = 0
    /\ fmLog = <<>>

NextFetch ==
    \/ \E status \in Statuses, v \in 1..MaxMeta : FM_Respond(status, v)
    \/ FM_NetworkError
    \/ FM_Retry
    \/ EN_Next

SpecFetch == InitFetch /\ [][NextFetch]_vars

\* C3: every 403 answer to fetchRepoMeta is followed by a sleep and the same
\* request again: the call never returns (null or anything) on a 403 and the
\* repository is never skipped because of one; the call returns on the first
\* answer that is not 403, the metadata on 2xx and null otherwise, after
\* which the loop goes on.
C3_RetriesEvery403 ==
    /\ Len(fmLog) <= Len(enList)
    /\ \A k \in 1..Len(fmLog) :
          /\ fmLog[k].status # 403
          /\ fmLog[k].result = IF IsOk(fmLog[k].status) THEN "meta" ELSE "null"
          /\ fmLog[k].sent = fmLog[k].got403 + 1
    /\ enPc = "sleep" => fmSent = fm403 /\ Len(fmLog) = enI - 1
    /\ enPc = "fetch" => fmSent = fm403 + 1 /\ Len(fmLog) = enI - 1
    /\ enPc \in {"pace", "done"} => Len(fmLog) = IF enPc = "pace" THEN enI ELSE Len(enList)
    /\ Len(enriched) = Cardinality({k \in 1..Len(fmLog) : fmLog[k].result = "meta"})

\* a call answered 403 twice and then 200 returned the metadata, and the
\* loop went on to the next repository
C3_Witness ==
    /\ Len(fmLog) >= 1
    /\ fmLog[1].got403 = Max403
    /\ fmLog[1].result = "meta"
    /\ enI = 2
    /\ enPc = "fetch"

-----------------------------------------------------------------------------
(* The pagination loop of the dependents scraper                             *)

\* the URLs of the site; 1 is the URL the first page.goto(BASE_URL) ends on
Hrefs == 1..MaxHref

\* the full names one page lists
PageRows == {<<>>} \cup {<<fn>> : fn \in FullNames}

\* visitedUrls.has(nextHref)
NeverVisited(href) == FALSE
AlreadyVisited(href) == href \in visitedUrls

\* await page.waitForSelector('.Box-row'): rows appear, or it times out and
\* the loop breaks
SC_WaitForSelector(found) ==
    /\ scPc = "wait"
    /\ scPc' = IF found THEN "scrape" ELSE "done"
    /\ scStop' = IF found THEN scStop ELSE "timeout"
    /\ UNCHANGED <<pageUrl, visitedUrls, pageNum, results, scNavigated, exceptScrape>>

\* the rows of the page are pushed to results, then the polite delay
SC_ScrapePage(repos) ==
    /\ scPc = "scrape"
    /\ results' = results \o repos
    /\ scPc' = "next"
    /\ UNCHANGED <<pageUrl, visitedUrls, pageNum, scNavigated, scStop, exceptScrape>>

\* the next link is read and followed: nextHref is Null when the page has
\* none; page.goto either loads the page or throws, which nothing catches
SC_FollowNext(nextHref, loaded) ==
    /\ scPc = "next"
    /\ IF nextHref = Null
       THEN /\ scPc' = "done"
            /\ scStop' = "nonext"
            /\ UNCHANGED <<pageUrl, visitedUrls, pageNum, scNavigated>>
       ELSE IF AlreadyVisited(nextHref[1])
       THEN /\ scPc' = "done"
            /\ scStop' = "repeat"
            /\ UNCHANGED <<pageUrl, visitedUrls, pageNum, scNavigated>>
       ELSE /\ visitedUrls' = visitedUrls \cup {nextHref[1]}
            /\ pageNum' = pageNum + 1
            /\ scNavigated' = Append(scNavigated, nextHref[1])
            /\ IF loaded
               THEN scPc' = "wait" /\ pageUrl' = nextHref[1] /\ UNCHANGED scStop
               ELSE scPc' = "crashed" /\ scStop' = "goto" /\ UNCHANGED pageUrl
    /\ UNCHANGED <<results, exceptScrape>>

\* after page.goto(BASE_URL) and visitedUrls.add(page.url())
InitScrape ==
    /\ IdleHead
    /\ IdleDelay
    /\ IdleMap
    /\ IdleImport
    /\ IdleShutdown
    /\ IdleFilename
    /\ IdleExport
    /\ EmptyDatabase
    /\ IdleList
    /\ IdleUpsert
    /\ IdleFetch
    /\ IdleOnline
    /\ scPc = "wait"
    /\ pageUrl = 1
    /\ visitedUrls = {1}
    /\ pageNum = 1
    /\ results = <<>>
    /\ scNavigated = <<>>
    /\ scStop = ""

NextScrape ==
    \/ \E found \in BOOLEAN : SC_WaitForSelector(found)
    \/ \E repos \in PageRows : SC_ScrapePage(repos)
    \/ \E nextHref \in {Null} \cup {Some(h) : h \in Hrefs}, loaded \in BOOLEAN :
          SC_FollowNext(nextHref, loaded)

SpecScrape == InitScrape /\ [][NextScrape]_vars

\* C5: the pagination loop never navigates twice to the same next href: an
\* href is in visitedUrls before page.goto is called with it, and the loop
\* stops on an href already there, on a page without next link and on a
\* selector timeout; so the number of navigations is bounded by the number
\* of distinct hrefs, every step short of the end can go on, and the loop
\* terminates on any page graph, cyclic ones included.
C5_NoHrefVisitedTwice ==
    /\ NoDuplicates(scNavigated)
    /\ Range(scNavigated) \subseteq visitedUrls
    /\ 1 \notin Range(scNavigated)
    /\ Cardinality(visitedUrls) = Len(scNavigated) + 1
    /\ pageNum = Len(scNavigated) + 1
    /\ Len(scNavigated) < MaxHref
    /\ scStop = "repeat" => scPc = "done"
    /\ scPc \in {"done", "crashed"} \/ ENABLED NextScrape

\* the loop went through every href and stopped on a link back to a page it
\* had navigated to
C5_Witness ==
    /\ scPc = "done"
    /\ scStop = "repeat"
    /\ Len(scNavigated) = MaxHref - 1
    /\ Len(results) = MaxHref

-----------------------------------------------------------------------------
(* The online check: main, updateDeletedAt, hasScaffoldConfig                *)

\* a table as earlier runs of the scripts left it: some of the repositories,
\* each live or marked deleted at time 0
StoredRow(fn, deleted) ==
    [InsertedRow(RepositoryData(fn, 1), IF OwnerOf(fn) = <<"a">> THEN 1 ELSE 2, 0)
        EXCEPT !.deleted_at = deleted]
StoredTables ==
    UNION {{{StoredRow(fn, d[fn]) : fn \in S} : d \in [S -> {Null, Some(0)}]} :
           S \in SUBSET FullNames}

\* ORDER BY id, the ids being distinct
OrderById(table) ==
    CHOOSE s \in [1..Cardinality(table) -> table] :
        \A j, k \in 1..Cardinality(table) : j < k => s[j].id < s[k].id

\* what headWithRetry hands back: the status of a response, or 0 when its
\* last fetch throws
HeadStatuses == {200, 301, 404, 429, 500}
Thrown == 0

\* a path is the text before its last part and that part, so that
\* item.path.endsWith("scaffold.config.ts") is a test of the last part
EndsWith(path, suffix) == Len(path) > 0 /\ path[Len(path)] = suffix
Readme == [path |-> <<"README.md">>, type |-> "blob"]
ConfigFile == [path |-> <<"packages/nextjs/", "scaffold.config.ts">>, type |-> "blob"]
ConfigDir == [path |-> <<"scaffold.config.ts">>, type |-> "tree"]
\* what fetchGitTreeWithRetry hands back: Null, or the GitTreeResponse
GitTrees ==
    {[truncated |-> t, tree |-> items] :
        t \in BOOLEAN, items \in {{Readme}, {Readme, ConfigFile}, {Readme, ConfigDir}}}

hasScaffoldConfig(tree) ==
    \E item \in tree.tree : EndsWith(item.path, "scaffold.config.ts") /\ item.type = "blob"

\* UPDATE repositories SET deleted_at = NOW() | NULL WHERE id = $1
updateDeletedAt(id, value) ==
    /\ repositories' =
          {IF r.id = id
           THEN [r EXCEPT !.deleted_at = IF value = "now" THEN Some(now + 1) ELSE Null]
           ELSE r : r \in repositories}
    /\ now' = now + 1

\* status >= 200 && status < 400, and a test that forgets the redirects
isOnline2xxOnly(status) == status >= 200 /\ status < 300
isOnline(status) == status >= 200 /\ status < 400

\* isNotFound && repo.deleted_at === null, and a test that forgets the column
isNotFoundOnly(status, repo) == status = 404
isNotFoundAndLive(status, repo) == status = 404 /\ repo.deleted_at = Null

LogEntry(status, treeState, tree, wrote) ==
    [status    |-> status,
     tree      |-> treeState,
     truncated |-> IF tree = Null THEN FALSE ELSE tree[1].truncated,
     found     |-> IF tree = Null THEN FALSE ELSE hasScaffoldConfig(tree[1]),
     wrote     |-> wrote,
     at        |-> now + 1]

\* SELECT id, full_name, url, deleted_at, default_branch ... ORDER BY id
OL_Load ==
    /\ olPc = "load"
    /\ olRows' = OrderById(repositories)
    /\ olPc' = "head"
    /\ UNCHANGED <<repositories, now, olI, olStatus, markedDeleted, restored, unchanged,
                   errors, deletedNoScaffoldConfig, olLog, exceptOnline>>

\* const res = await headWithRetry(repo.url) and the branches on its status
OL_Head(status) ==
    /\ olPc = "head"
    /\ olI <= Len(olRows)
    /\ olStatus' = status
    /\ LET repo == olRows[olI] IN
       IF status = Thrown
       THEN \* the catch block
            /\ errors' = errors + 1
            /\ olLog' = Append(olLog, LogEntry(status, "notfetched", Null, "none"))
            /\ olI' = olI + 1
            /\ UNCHANGED <<repositories, now, olPc, markedDeleted, restored, unchanged>>
       ELSE IF isNotFoundAndLive(status, repo)
       THEN /\ updateDeletedAt(repo.id, "now")
            /\ markedDeleted' = markedDeleted + 1
            /\ olLog' = Append(olLog, LogEntry(status, "notfetched", Null, "now"))
            /\ olI' = olI + 1
            /\ UNCHANGED <<olPc, restored, unchanged, errors>>
       ELSE IF isOnline(status)
       THEN /\ IF repo.deleted_at # Null
               THEN \* marked deleted and online again: restored, no tree check
                    /\ updateDeletedAt(repo.id, "null")
                    /\ restored' = restored + 1
                    /\ olLog' = Append(olLog, LogEntry(status, "notfetched", Null, "null"))
                    /\ olI' = olI + 1
                    /\ UNCHANGED <<olPc, markedDeleted, unchanged>>
               ELSE \* await fetchGitTreeWithRetry(repo.full_name, branch)
                    /\ olPc' = "tree"
                    /\ UNCHANGED <<repositories, now, olI, markedDeleted, restored,
                                   unchanged, olLog>>
            /\ UNCHANGED errors
       ELSE /\ unchanged' = unchanged + 1
            /\ olLog' = Append(olLog, LogEntry(status, "notfetched", Null, "none"))
            /\ olI' = olI + 1
            /\ UNCHANGED <<repositories, now, olPc, markedDeleted, restored, errors>>
    /\ UNCHANGED <<olRows, deletedNoScaffoldConfig, exceptOnline>>

\* the git tree (or Null) arrives for an online row that is not marked deleted
OL_Tree(tree) ==
    /\ olPc = "tree"
    /\ LET repo == olRows[olI] IN
       IF tree = Null
       THEN /\ unchanged' = unchanged + 1
            /\ olLog' = Append(olLog, LogEntry(olStatus, "failed", Null, "none"))
            /\ UNCHANGED <<repositories, now, markedDeleted, deletedNoScaffoldConfig>>
       ELSE IF ~tree[1].truncated /\ ~hasScaffoldConfig(tree[1])
       THEN /\ updateDeletedAt(repo.id, "now")
            /\ markedDeleted' = markedDeleted + 1
            /\ deletedNoScaffoldConfig' = deletedNoScaffoldConfig + 1
            /\ olLog' = Append(olLog, LogEntry(olStatus, "fetched", tree, "now"))
            /\ UNCHANGED unchanged
       ELSE /\ unchanged' = unchanged + 1
            /\ olLog' = Append(olLog, LogEntry(olStatus, "fetched", tree, "none"))
            /\ UNCHANGED <<repositories, now, markedDeleted, deletedNoScaffoldConfig>>
    /\ olI' = olI + 1
    /\ olPc' = "head"
    /\ UNCHANGED <<olRows, olStatus, restored, errors, exceptOnline>>

\* the loop is over: the summary is printed and the pool ended
OL_Finish ==
    /\ olPc = "head"
    /\ olI > Len(olRows)
    /\ olPc' = "done"
    /\ UNCHANGED <<repositories, now, olRows, olI, olStatus, markedDeleted, restored,
                   unchanged, errors, deletedNoScaffoldConfig, olLog, exceptOnline>>

InitOnline ==
    /\ IdleHead
    /\ IdleDelay
    /\ IdleMap
    /\ IdleImport
    /\ IdleShutdown
    /\ IdleFilename
    /\ IdleExport
    /\ repositories \in StoredTables
    /\ seq = 2
    /\ now = 0
    /\ IdleList
    /\ IdleUpsert
    /\ IdleFetch
    /\ IdleScrape
    /\ olRows = <<>>
    /\ olI = 1
    /\ olPc = "load"
    /\ olStatus = 0
    /\ markedDeleted = 0
    /\ restored = 0
    /\ unchanged = 0
    /\ errors = 0
    /\ deletedNoScaffoldConfig = 0
    /\ olLog = <<>>

NextOnline ==
    \/ OL_Load
    \/ \E status \in HeadStatuses \cup {Thrown} : OL_Head(status)
    \/ \E tree \in {Null} \cup {Some(t) : t \in GitTrees} : OL_Tree(tree)
    \/ OL_Finish

SpecOnline == InitOnline /\ [][NextOnline]_vars

\* the row of the table that the k-th checked row has become
CheckedRow(k) == CHOOSE r \in repositories : r.id = olRows[k].id

C8_OnlineChecksScaffoldConfig ==
    \A k \in 1..Len(olLog) :
        (olLog[k].status >= 200 /\ olLog[k].status <= 399) =>
            /\ olLog[k].tree # "notfetched"
            /\ (/\ olLog[k].tree = "fetched"
                /\ ~olLog[k].found
                /\ ~olLog[k].truncated
                /\ olRows[k].deleted_at = Null)
               => CheckedRow(k).deleted_at = Some(olLog[k].at)

-----------------------------------------------------------------------------
(* The list endpoint GET /api/repositories                                   *)

\* parseInt(text): the number its leading decimal digits spell, NaN (Null)
\* when it has none
Digits == <<"0", "1", "2", "3", "4", "5", "6", "7", "8", "9">>
IsDigit(c) == \E k \in 1..10 : Digits[k] = c
DigitValue(c) == (CHOOSE k \in 1..10 : Digits[k] = c) - 1
RECURSIVE LeadingNumber(_, _)
LeadingNumber(text, acc) ==
    IF text # <<>> /\ IsDigit(text[1])
    THEN LeadingNumber(Tail(text), 10 * acc + DigitValue(text[1]))
    ELSE acc
parseInt(text) ==
    IF text # <<>> /\ IsDigit(text[1]) THEN Some(LeadingNumber(text, 0)) ELSE Null

\* String.prototype.toLowerCase on the letters that occur
LowerChar(c) ==
    CASE c = "A" -> "a"
      [] c = "B" -> "b"
      [] c = "S" -> "s"
      [] c = "C" -> "c"
      [] c = "X" -> "x"
      [] OTHER   -> c
toLowerCase(text) == [k \in 1..Len(text) |-> LowerChar(text[k])]

\* text ILIKE pattern: % stands for any text, _ for any one character, the
\* rest is compared without case
RECURSIVE ILike(_, _)
ILike(text, pattern) ==
    IF pattern = <<>> THEN text = <<>>
    ELSE IF pattern[1] = "%"
    THEN ILike(text, Tail(pattern)) \/ (text # <<>> /\ ILike(Tail(text), pattern))
    ELSE /\ text # <<>>
         /\ pattern[1] = "_" \/ LowerChar(pattern[1]) = LowerChar(text[1])
         /\ ILike(Tail(text), Tail(pattern))

\* WHERE (full_name ILIKE $1 OR name ILIKE $1 OR owner ILIKE $1), or no WHERE
Matching(table, search) ==
    IF search = <<>> THEN table
    ELSE LET pattern == <<"%">> \o search \o <<"%">>
         IN  {r \in table : \/ ILike(r.full_name, pattern)
                            \/ ILike(r.name, pattern)
                            \/ ILike(r.owner, pattern)}

allowedSortFields ==
    {"id", "stars", "forks", "name", "owner", "created_at", "updated_at", "last_seen"}

\* allowedSortFields.includes(sortBy) ? sortBy : "id"
unvalidatedSortBy(sortBy) == sortBy
validSortBy(sortBy) == IF sortBy \in allowedSortFields THEN sortBy ELSE "id"

\* sortOrder.toLowerCase() === "asc" ? "ASC" : "DESC"
validSortOrder(sortOrder) ==
    IF toLowerCase(sortOrder) = <<"a", "s", "c">> THEN "ASC" ELSE "DESC"

\* (page - 1) * limit
offsetFromPage(page, limit) == page * limit
offset(page, limit) == (page - 1) * limit

\* the order of the text columns: the rank of a character in the collation
Collation == <<"/", "_", "a", "B", "b", "x">>
CharRank(c) == CHOOSE k \in 1..Len(Collation) : Collation[k] = c
RECURSIVE TextLess(_, _)
TextLess(t1, t2) ==
    IF t2 = <<>> THEN FALSE
    ELSE IF t1 = <<>> THEN TRUE
    ELSE IF t1[1] = t2[1] THEN TextLess(Tail(t1), Tail(t2))
    ELSE CharRank(t1[1]) < CharRank(t2[1])

\* the value ORDER BY reads in a row, Null for SQL NULL
SortKey(r, column) ==
    CASE column = "id"         -> Some(r.id)
      [] column = "stars"      -> r.stars
      [] column = "forks"      -> r.forks
      [] column = "name"       -> Some(r.name)
      [] column = "owner"      -> Some(r.owner)
      [] column = "created_at" -> r.created_at
      [] column = "updated_at" -> r.updated_at
      [] column = "last_seen"  -> r.last_seen

\* r1 must come before r2 under ORDER BY column direction NULLS LAST
Precedes(r1, r2, column, direction) ==
    LET k1 == SortKey(r1, column)
        k2 == SortKey(r2, column)
        less(a, b) == IF column \in {"name", "owner"} THEN TextLess(a, b) ELSE a < b
    IN  IF k1 = Null THEN FALSE
        ELSE IF k2 = Null THEN TRUE
        ELSE IF direction = "ASC" THEN less(k1[1], k2[1]) ELSE less(k2[1], k1[1])

\* the orders in which the database may return rows: rows with equal keys
\* come in any order
Ordered(rows, column, direction) ==
    {s \in [1..Cardinality(rows) -> rows] :
        /\ \A j, k \in 1..Cardinality(rows) : j # k => s[j] # s[k]
        /\ \A j, k \in 1..Cardinality(rows) :
              j < k => ~Precedes(s[k], s[j], column, direction)}

\* LIMIT limit OFFSET offset
LimitOffset(s, limit, off) ==
    [k \in 1..(IF Len(s) - off < 0 THEN 0
               ELSE IF Len(s) - off < limit THEN Len(s) - off ELSE limit) |-> s[off + k]]

\* Math.ceil(totalCount / limit) for limit > 0
ceil(count, limit) == (count + limit - 1) \div limit

\* the request parameters after their defaults: searchParams.get(..) || ..,
\* "1" for page, "30" for limit, "id" for sortBy, "desc" for sortOrder
Page(req) == parseInt(IF req.page = <<>> THEN <<"1">> ELSE req.page)
Limit(req) == parseInt(IF req.limit = <<>> THEN <<"3", "0">> ELSE req.limit)
SortBy(req) == IF req.sortBy = "" THEN "id" ELSE req.sortBy
SortOrder(req) == IF req.sortOrder = <<>> THEN <<"d", "e", "s", "c">> ELSE req.sortOrder

whereClause(search) ==
    IF search = <<>> THEN <<>>
    ELSE <<"WHERE (full_name ILIKE $1 OR name ILIKE $1 OR owner ILIKE $1)">>

countQuery(req) ==
    [text   |-> <<"SELECT COUNT(*) as count FROM repositories">> \o whereClause(req.search),
     params |-> IF req.search = <<>> THEN <<>>
                ELSE <<Some(<<"%">> \o req.search \o <<"%">>)>>]

\* JS numbers handed to the driver: Some(n), or Null for NaN
jsOffset(req) ==
    IF Page(req) = Null \/ Limit(req) = Null THEN Null
    ELSE Some(offset(Page(req)[1], Limit(req)[1]))

repositoriesQuery(req) ==
    [text   |-> <<"SELECT id, full_name, name, owner, url, homepage, stars, forks, created_at, updated_at, last_seen, saved_at, source",
                  "FROM repositories">>
                \o whereClause(req.search)
                \o <<"ORDER BY", validSortBy(SortBy(req)), validSortOrder(SortOrder(req)),
                     "NULLS LAST">>
                \o (IF req.search = <<>> THEN <<"LIMIT $1 OFFSET $2">>
                    ELSE <<"LIMIT $2 OFFSET $3">>),
     params |-> (IF req.search = <<>> THEN <<>>
                 ELSE <<Some(<<"%">> \o req.search \o <<"%">>)>>)
                \o <<Limit(req), jsOffset(req)>>]

\* the statement is one the database runs: the ORDER BY column exists and
\* LIMIT and OFFSET are numbers that are not negative
Runs(query, req) ==
    /\ query.text[Len(query.text) - 3] \in allowedSortFields
    /\ Limit(req) # Null /\ jsOffset(req) # Null
    /\ jsOffset(req)[1] >= 0

Failure == [status |-> 500, error |-> "Failed to fetch repositories"]

\* const countResult = await client.query(countQuery, queryParams)
LS_Count ==
    /\ lsPc = "count"
    /\ lsQueries' = Append(lsQueries, countQuery(lsRequest[1]))
    /\ totalCount' = Cardinality(Matching(repositories, lsRequest[1].search))
    /\ lsCountTable' = repositories
    /\ lsPc' = "rows"
    /\ UNCHANGED <<upVars, lsRequest, lsResponse, lsRowsTable, exceptList>>

\* await client.query(repositoriesQuery, repositoriesParams) and the JSON
\* response; `order` is the order the database returns the matching rows in
LS_Rows(order) ==
    /\ lsPc = "rows"
    /\ LET req == lsRequest[1]
           query == repositoriesQuery(req)
       IN  /\ lsQueries' = Append(lsQueries, query)
           /\ lsRowsTable' = repositories
           /\ IF ~Runs(query, req)
              THEN lsResponse' = Some(Failure)
              ELSE /\ order \in Ordered(Matching(repositories, req.search),
                                        validSortBy(SortBy(req)),
                                        validSortOrder(SortOrder(req)))
                   /\ LET page == Page(req)[1]
                          limit == Limit(req)[1]
                          totalPages == ceil(totalCount, limit)
                      IN  lsResponse' = Some(
                            [status       |-> 200,
                             repositories |-> LimitOffset(order, limit, jsOffset(req)[1]),
                             pagination   |-> [currentPage |-> page,
                                               totalPages  |-> totalPages,
                                               totalCount  |-> totalCount,
                                               limit       |-> limit,
                                               hasNext     |-> page < totalPages,
                                               hasPrev     |-> page > 1],
                             sorting      |-> [sortBy    |-> validSortBy(SortBy(req)),
                                               sortOrder |-> validSortOrder(SortOrder(req))],
                             search       |-> req.search])
    /\ lsPc' = "done"
    /\ UNCHANGED <<upVars, lsRequest, totalCount, lsCountTable, exceptList>>

\* pool.connect() or a query rejects: the outer catch answers 500
LS_DatabaseError ==
    /\ lsPc \in {"count", "rows"}
    /\ lsResponse' = Some(Failure)
    /\ lsPc' = "done"
    /\ UNCHANGED <<upVars, lsRequest, totalCount, lsQueries, lsCountTable, lsRowsTable,
                   exceptList>>

\* a collection script upserting while the request is being served, between
\* its two statements (a write before the first is a request on another table)
LS_ScriptUpsert(repo) ==
    /\ lsPc = "rows"
    /\ directCalls < MaxDirect
    /\ directCalls' = directCalls + 1
    /\ upsertRepository(repo)
    /\ UNCHANGED <<lsVars, exceptList>>

\* tables as the scripts leave them: some of the repositories, each at one of
\* its metadata versions
ListRow(fn, v) ==
    InsertedRow(RepositoryData(fn, v), IF OwnerOf(fn) = <<"a">> THEN 1 ELSE 2, 0)
ListTables ==
    UNION {{{ListRow(fn, d[fn]) : fn \in S} : d \in [S -> 1..MaxMeta]} :
           S \in SUBSET FullNames}

PageParams == {<<>>, <<"1">>, <<"2">>, <<"0">>, <<"x">>}
LimitParams == {<<>>, <<"1">>, <<"2", "x">>, <<"x">>}
SortByParams == {"", "full_name", "id; DROP TABLE repositories"} \cup allowedSortFields
SortOrderParams == {<<>>, <<"a", "s", "c">>, <<"A", "s", "C">>, <<"x">>}
SearchParams == {<<>>, <<"b">>, <<"_">>, <<"z">>}
\* the requests tried: every sorting of the first page, and every page and
\* limit of an upward sorting by stars
Requests ==
    [page : {<<>>}, limit : {<<>>}, sortBy : SortByParams,
     sortOrder : SortOrderParams, search : {<<>>, <<"b">>}]
    \cup
    [page : PageParams, limit : LimitParams, sortBy : {"stars"},
     sortOrder : {<<"a", "s", "c">>}, search : SearchParams]

InitList ==
    /\ IdleHead
    /\ IdleDelay
    /\ IdleMap
    /\ IdleImport
    /\ IdleShutdown
    /\ IdleFilename
    /\ IdleExport
    /\ repositories \in ListTables
    /\ seq = 2
    /\ now = 0
    /\ upserted = {r.full_name : r \in repositories}
    /\ call = Null
    /\ directCalls = 0
    /\ prList = <<>>
    /\ prI = 1
    /\ prPc = "idle"
    /\ prExisting = FALSE
    /\ savedCount = 0
    /\ updatedCount = 0
    /\ prTried = <<>>
    /\ prFailed = {}
    /\ IdleFetch
    /\ IdleScrape
    /\ IdleOnline
    /\ lsPc = "count"
    /\ lsRequest \in {Some(req) : req \in Requests}
    /\ totalCount = 0
    /\ lsQueries = <<>>
    /\ lsResponse = Null
    /\ lsCountTable = {}
    /\ lsRowsTable = {}

NextList ==
    \/ LS_Count
    \/ \E order \in UNION {[1..n -> repositories] : n \in 0..Cardinality(repositories)} :
          LS_Rows(order)
    \/ LS_DatabaseError
    \/ \E repo \in RepoInputs : LS_ScriptUpsert(repo)

SpecList == InitList /\ [][NextList]_vars

-----------------------------------------------------------------------------
(* Claims about the list endpoint (SpecList)                                 *)

TheRequest == lsRequest[1]
TheResponse == lsResponse[1]

\* the text the endpoint's statements are made of, apart from the ORDER BY
\* column and direction
FixedQueryText ==
    {"SELECT COUNT(*) as count FROM repositories",
     "SELECT id, full_name, name, owner, url, homepage, stars, forks, created_at, updated_at, last_seen, saved_at, source",
     "FROM repositories",
     "WHERE (full_name ILIKE $1 OR name ILIKE $1 OR owner ILIKE $1)",
     "ORDER BY", "NULLS LAST", "LIMIT $1 OFFSET $2", "LIMIT $2 OFFSET $3"}

SortColumns ==
    {"id", "stars", "forks", "name", "owner", "created_at", "updated_at", "last_seen"}

OrderByAt(text) == CHOOSE k \in 1..Len(text) : text[k] = "ORDER BY"

\* C9: in every statement the list endpoint executes, the ORDER BY column is
\* one of id, stars, forks, name, owner, created_at, updated_at, last_seen
\* (the requested one when it is in that list, id otherwise), the direction
\* is ASC or DESC (ASC exactly when sortOrder is 'asc' in any case), and the
\* rest of the text is fixed: the search pattern, limit and offset are bound
\* parameters only.
C9_OrderByIsWhitelisted ==
    \A n \in 1..Len(lsQueries) :
        LET q == lsQueries[n]
            req == TheRequest
            searchParam == IF req.search = <<>> THEN <<>>
                           ELSE <<Some(<<"%">> \o req.search \o <<"%">>)>>
        IN  IF n = 1
            THEN /\ Range(q.text) \subseteq FixedQueryText
                 /\ q.params = searchParam
            ELSE LET k == OrderByAt(q.text)
                     column == q.text[k + 1]
                     direction == q.text[k + 2]
                 IN  /\ \E j \in 1..Len(q.text) : q.text[j] = "ORDER BY"
                     /\ column \in SortColumns
                     /\ column = IF req.sortBy \in SortColumns THEN req.sortBy ELSE "id"
                     /\ direction \in {"ASC", "DESC"}
                     /\ direction = "ASC" <=>
                           req.sortOrder \in {<<"a", "s", "c">>, <<"A", "s", "C">>}
                     /\ \A j \in 1..Len(q.text) :
                           j \notin {k + 1, k + 2} => q.text[j] \in FixedQueryText
                     /\ q.params = searchParam \o <<Limit(req), jsOffset(req)>>

\* a request that asks to sort by SQL text and searches was answered with
\* the rows sorted by id
C9_Witness ==
    /\ lsPc = "done"
    /\ Len(lsQueries) = 2
    /\ TheRequest.sortBy = "id; DROP TABLE repositories"
    /\ TheRequest.sortOrder = <<"A", "s", "C">>
    /\ TheRequest.search = <<"b">>
    /\ TheResponse.status = 200
    /\ Len(TheResponse.repositories) = 2

\* the rows at positions (page-1)*limit+1 .. page*limit of the rows of
\* `table` that match the search, sorted as the response says (rows with
\* equal keys in the order the database chose)
IsPageOf(rows, table, search, sorting, page, limit) ==
    \E all \in Ordered(Matching(table, search), sorting.sortBy, sorting.sortOrder) :
        /\ Len(rows) = Cardinality({k \in ((page - 1) * limit + 1)..(page * limit) :
                                       k <= Len(all)})
        /\ \A j \in 1..Len(rows) : rows[j] = all[(page - 1) * limit + j]

\* totalPages = ceil(totalCount / limit), hasNext iff page < totalPages,
\* hasPrev iff page > 1
PaginationAddsUp(p) ==
    /\ p.totalPages * p.limit >= p.totalCount
    /\ (p.totalPages - 1) * p.limit < p.totalCount
    /\ p.hasNext <=> p.currentPage < p.totalPages
    /\ p.hasPrev <=> p.currentPage > 1

Answered == lsResponse # Null /\ TheResponse.status = 200

\* C10 as stated: a request with page >= 1 and limit >= 1 that is answered
\* gets the rows at positions (page-1)*limit+1 .. page*limit of the filtered,
\* sorted result, with totalCount equal to the number of rows of that result,
\* totalPages = ceil(totalCount/limit), hasNext exactly when page <
\* totalPages and hasPrev exactly when page > 1.
C10_CountOfThePagedResult ==
    Answered =>
        LET p == TheResponse.pagination IN
        /\ Page(TheRequest) = Some(p.currentPage) /\ Limit(TheRequest) = Some(p.limit)
        /\ p.currentPage >= 1 /\ p.limit >= 1
        /\ IsPageOf(TheResponse.repositories, lsRowsTable, TheRequest.search,
                    TheResponse.sorting, p.currentPage, p.limit)
        /\ p.totalCount = Cardinality(Matching(lsRowsTable, TheRequest.search))
        /\ PaginationAddsUp(p)

\* C10 as amended: the rows are those at positions (page-1)*limit+1 ..
\* page*limit of the filtered, sorted result of the rows query; totalCount is
\* the number of rows that matched the search when the count query ran,
\* before it; totalPages = ceil(totalCount/limit), hasNext exactly when
\* page < totalPages and hasPrev exactly when page > 1.
C10_CountOfTheCountQuery ==
    Answered =>
        LET p == TheResponse.pagination IN
        /\ Page(TheRequest) = Some(p.currentPage) /\ Limit(TheRequest) = Some(p.limit)
        /\ p.currentPage >= 1 /\ p.limit >= 1
        /\ IsPageOf(TheResponse.repositories, lsRowsTable, TheRequest.search,
                    TheResponse.sorting, p.currentPage, p.limit)
        /\ p.totalCount = Cardinality(Matching(lsCountTable, TheRequest.search))
        /\ PaginationAddsUp(p)

\* the second page of one row each, of two rows found by a search and sorted
\* by stars, upwards: the row with the most stars, and no next page
C10_Witness ==
    /\ Answered
    /\ TheRequest.search = <<"b">>
    /\ TheResponse.pagination.currentPage = 2
    /\ TheResponse.pagination.limit = 1
    /\ TheResponse.pagination.totalCount = 2
    /\ TheResponse.pagination.totalPages = 2
    /\ Len(TheResponse.repositories) = 1
    /\ \A r \in lsRowsTable : TheResponse.repositories[1].stars[1] >= r.stars[1]
    /\ \E r \in lsRowsTable : TheResponse.repositories[1].stars[1] > r.stars[1]
    /\ TheResponse.sorting.sortOrder = "ASC"
    /\ ~TheResponse.pagination.hasNext
    /\ TheResponse.pagination.hasPrev

-----------------------------------------------------------------------------
(* The export endpoint GET /api/repositories/export                          *)

\* the characters a stored text is made of that matter to a CSV reader
Comma == ","
DoubleQuote == "\""
LineFeed == "\n"

\* String(n) of a non-negative integer
RECURSIVE DecimalDigits(_)
DecimalDigits(n) ==
    IF n < 10 THEN <<Digits[n + 1]>>
    ELSE Append(DecimalDigits(n \div 10), Digits[(n % 10) + 1])

\* String(date) of the Date the driver builds from a TIMESTAMP: a text of
\* letters, digits, blanks, colons and brackets, written here as a marker and
\* the instant
DateToString(t) == <<"D">> \o DecimalDigits(t)

\* Array.prototype.join
RECURSIVE join(_, _)
join(texts, separator) ==
    IF texts = <<>> THEN <<>>
    ELSE IF Len(texts) = 1 THEN texts[1]
    ELSE texts[1] \o separator \o join(Tail(texts), separator)

\* `"${text}"`
InQuotes(text) == <<DoubleQuote>> \o text \o <<DoubleQuote>>

\* the elements of a TEXT[] value in their stored order
SourceArray(source) ==
    CHOOSE s \in [1..Cardinality(source) -> source] :
        \A j, k \in 1..Cardinality(source) : s[j] = s[k] => j = k

headers ==
    <<<<"ID">>, <<"Full Name">>, <<"Name">>, <<"Owner">>, <<"URL">>, <<"Homepage">>,
      <<"Stars">>, <<"Forks">>, <<"Created At">>, <<"Updated At">>, <<"Last Seen">>,
      <<"Saved At">>, <<"Source">>>>

\* value || fallback for a nullable number and a nullable date
NumberOrZero(n) == IF n = Null \/ n = Some(0) THEN <<"0">> ELSE DecimalDigits(n[1])
DateOrEmpty(d) == IF d = Null THEN <<>> ELSE DateToString(d[1])

\* the array one row is mapped to, before its join(",")
csvFields(repo) ==
    <<DecimalDigits(repo.id),
      InQuotes(repo.full_name),
      InQuotes(repo.name),
      InQuotes(repo.owner),
      InQuotes(repo.url),
      IF repo.homepage = Null \/ repo.homepage = Some(<<>>) THEN <<>>
      ELSE InQuotes(repo.homepage[1]),
      NumberOrZero(repo.stars),
      NumberOrZero(repo.forks),
      DateOrEmpty(repo.created_at),
      DateOrEmpty(repo.updated_at),
      DateOrEmpty(repo.last_seen),
      DateOrEmpty(repo.saved_at),
      InQuotes(join([k \in 1..Cardinality(repo.source) |-> <<SourceArray(repo.source)[k]>>],
                    <<";", " ">>))>>

csvRows(rows) ==
    <<join(headers, <<Comma>>)>> \o [k \in 1..Len(rows) |-> join(csvFields(rows[k]), <<Comma>>)]

csvContent(rows) == join(csvRows(rows), <<LineFeed>>)

ExportFailure == [status |-> 500, body |-> <<"Failed to export repositories">>]

\* client = await pool.connect(): resolves, or throws into the catch with
\* no client to release
EX_Connect(ok) ==
    /\ exPc = "connect"
    /\ IF ok
       THEN /\ exPc' = "query"
            /\ exClient' = "held"
            /\ UNCHANGED exResponse
       ELSE /\ exPc' = "done"
            /\ exResponse' = Some(ExportFailure)
            /\ UNCHANGED exClient
    /\ UNCHANGED exceptExport

\* await client.query(SELECT ... ORDER BY id) and everything after it: the
\* CSV is built and sent, or the catch answers 500; finally releases
EX_Query(ok) ==
    /\ exPc = "query"
    /\ exPc' = "done"
    /\ exClient' = "released"
    /\ exResponse' = IF ok
                     THEN Some([status |-> 200, body |-> csvContent(OrderById(repositories))])
                     ELSE Some(ExportFailure)
    /\ UNCHANGED exceptExport

\* stored rows: the texts of a row are whatever was written to its TEXT
\* columns; the homepage is the free text of the repository's settings page
ExportHomepages ==
    {Null, Some(<<>>), Some(<<"h">>), Some(<<"h", Comma, "i">>),
     Some(<<"h", DoubleQuote, Comma, "i">>)}
ExportStars == {Null, Some(0), Some(12)}
ExportRow(fn, homepage, stars) ==
    [InsertedRow(RepositoryData(fn, 1), IF OwnerOf(fn) = <<"a">> THEN 1 ELSE 2, 0)
        EXCEPT !.url = <<"u">>, !.homepage = homepage, !.stars = stars,
               !.source = IF stars = Null THEN {} ELSE {"csv-import", "scrape-dependents"},
               !.last_seen = IF stars = Null THEN Null ELSE Some(10)]
ExportTables ==
    UNION {{{ExportRow(fn, h[fn], n[fn]) : fn \in S} :
            h \in [S -> ExportHomepages], n \in [S -> ExportStars]} :
           S \in SUBSET FullNames}

InitExport ==
    /\ IdleHead
    /\ IdleDelay
    /\ IdleMap
    /\ IdleImport
    /\ IdleShutdown
    /\ IdleFilename
    /\ repositories \in ExportTables
    /\ seq = 2
    /\ now = 0
    /\ IdleUpsert
    /\ IdleFetch
    /\ IdleScrape
    /\ IdleOnline
    /\ IdleList
    /\ exPc = "connect"
    /\ exClient = "none"
    /\ exResponse = Null

NextExport ==
    \/ \E ok \in BOOLEAN : EX_Connect(ok)
    \/ \E ok \in BOOLEAN : EX_Query(ok)

SpecExport == InitExport /\ [][NextExport]_vars

\* ---- what is claimed of the export

\* the lines of a text, and the fields of a line as a CSV reader counts them:
\* a comma separates fields unless it stands inside double quotes
Cuts(text, separator) == {k \in 1..Len(text) : text[k] = separator}
Split(text, cuts) ==
    LET Cut(i) == IF i = 0 THEN 0
                  ELSE IF i = Cardinality(cuts) + 1 THEN Len(text) + 1
                  ELSE CHOOSE c \in cuts : Cardinality({d \in cuts : d < c}) = i - 1
    IN  [i \in 1..(Cardinality(cuts) + 1) |-> SubSeq(text, Cut(i - 1) + 1, Cut(i) - 1)]
LinesOf(text) == Split(text, Cuts(text, LineFeed))

Quoted(line, k) == Cardinality({j \in 1..(k - 1) : line[j] = DoubleQuote}) % 2 = 1
FieldsOf(line) == Split(line, {k \in Cuts(line, Comma) : ~Quoted(line, k)})

Exported == exResponse # Null /\ exResponse[1].status = 200
ExportedLines == LinesOf(exResponse[1].body)

\* the header, then one line per row in ascending id order
OneLinePerRow ==
    /\ Len(ExportedLines) = 1 + Cardinality(repositories)
    /\ ExportedLines[1] = join(headers, <<Comma>>)
    /\ Len(FieldsOf(ExportedLines[1])) = 13
    /\ \A k \in 1..Cardinality(repositories) :
          FieldsOf(ExportedLines[k + 1])[1]
              = DecimalDigits(OrderById(repositories)[k].id)

\* C11: the CSV is the 13-column header followed by one line per row of the
\* table in ascending id order, and every line has exactly 13 comma-separated
\* fields whatever the stored values are
C11_EveryLineHas13Fields ==
    Exported =>
        /\ OneLinePerRow
        /\ \A k \in 1..Len(ExportedLines) : Len(FieldsOf(ExportedLines[k])) = 13

-----------------------------------------------------------------------------
(* search-by-filename.ts: the search loop of main and its path filter        *)

\* value || fallback for a text: undefined and "" both take the fallback
OrDefault(value, fallback) == IF value = Null \/ value = Some(<<>>) THEN fallback ELSE value[1]

\* const requiredPath = (process.env.REQUIRED_PATH || '/nextjs/').toLowerCase()
DefaultRequiredPath == <<"/", "n", "e", "x", "t", "j", "s", "/">>
requiredPath(env) == toLowerCase(OrDefault(env, DefaultRequiredPath))

\* String.prototype.includes
includes(text, part) ==
    \E k \in 0..(Len(text) - Len(part)) : SubSeq(text, k + 1, k + Len(part)) = part

\* text.replace(/^\//, '')
WithoutLeadingSlash(text) == IF text # <<>> /\ text[1] = "/" THEN Tail(text) ELSE text

\* !requiredPath || (path && path.toLowerCase().includes(...))
passesRequired(required, path) ==
    \/ required = <<>>
    \/ /\ path # Null
       /\ path[1] # <<>>
       /\ includes(toLowerCase(path[1]), WithoutLeadingSlash(required))

\* the shards the run is configured with (PATH_SHARDS=/nextjs/ and
\* SIZE_SHARDS=0..4096,>4096); the first shard is the search without a path
shards == <<"", "path:/nextjs/">>
sizeShards == <<"0..4096", ">4096">>
LastPage == 10

\* what one code search page can hold: hits in and out of a nextjs folder,
\* hits without a path, hits without a repository
InNextjs == <<"n", "e", "X", "t", "j", "S", "/", "a">>
Elsewhere == <<"s", "r", "c", "/", "a">>
Hits ==
    {[repository |-> Some(FullName(<<"a">>)), path |-> Some(InNextjs)],
     [repository |-> Some(FullName(<<"B">>)), path |-> Some(Elsewhere)],
     [repository |-> Some(FullName(<<"B">>)), path |-> Null],
     [repository |-> Null, path |-> Some(InNextjs)]}
\* data.items: absent, or an array
SearchPages == {Null} \cup {Some(items) : items \in SeqsUpTo(Hits, 1)}

\* the accepted repositories of one page of items
Accepted(items, required) ==
    {it.repository[1] : it \in {h \in Range(items) : h.repository # Null
                                                       /\ passesRequired(required, h.path)}}

\* leaving the page loop: the next size shard, the next shard, or the end
NextShard ==
    /\ fsPage' = 1
    /\ IF fsSize < Len(sizeShards)
       THEN /\ fsSize' = fsSize + 1
            /\ UNCHANGED <<fsShard, fsPc, fsList>>
       ELSE IF fsShard < Len(shards)
       THEN /\ fsSize' = 1
            /\ fsShard' = fsShard + 1
            /\ UNCHANGED <<fsPc, fsList>>
       ELSE /\ fsPc' = "collected"
            /\ fsList' = CHOOSE l \in [1..Cardinality(fsRepos') -> fsRepos'] :
                              \A j, k \in 1..Cardinality(fsRepos') : l[j] = l[k] => j = k
            /\ UNCHANGED <<fsShard, fsSize>>

\* const data = await searchCode(base, page) resolving, the loop over its
\* items and the delay after it
FS_SearchPage(data) ==
    /\ fsPc = "search"
    /\ LET items == IF data = Null THEN <<>> ELSE data[1]
       IN  /\ fsSeen' = fsSeen \cup Range(items)
           /\ fsRepos' = fsRepos \cup Accepted(items, requiredPath(fsEnv))
           /\ IF items = <<>> \/ fsPage = LastPage
              THEN NextShard
              ELSE /\ fsPage' = fsPage + 1
                   /\ UNCHANGED <<fsShard, fsSize, fsPc, fsList>>
    /\ UNCHANGED <<fsEnv, exceptFilename>>

\* searchCode throws on a response that is neither ok nor 403: main rejects
\* and the process exits with code 1
FS_SearchFails ==
    /\ fsPc = "search"
    /\ fsPc' = "exited"
    /\ UNCHANGED <<fsEnv, fsShard, fsSize, fsPage, fsRepos, fsSeen, fsList, exceptFilename>>

\* REQUIRED_PATH as the environment can hold it: unset, empty, or a path
RequiredPathSettings == {Null, Some(<<>>), Some(<<"/", "S", "r", "c">>)}

InitFilename ==
    /\ IdleHead
    /\ IdleDelay
    /\ IdleMap
    /\ IdleImport
    /\ IdleShutdown
    /\ EmptyDatabase
    /\ IdleUpsert
    /\ IdleFetch
    /\ IdleScrape
    /\ IdleOnline
    /\ IdleList
    /\ IdleExport
    /\ fsEnv \in RequiredPathSettings
    /\ fsPc = "search"
    /\ fsShard = 1
    /\ fsSize = 1
    /\ fsPage = 1
    /\ fsRepos = {}
    /\ fsSeen = {}
    /\ fsList = <<>>

NextFilename ==
    \/ \E data \in SearchPages : FS_SearchPage(data)
    \/ FS_SearchFails

SpecFilename == InitFilename /\ [][NextFilename]_vars

\* C12: with REQUIRED_PATH set to the empty string the path filter is off:
\* every hit that names a repository is accepted whatever its path
C12_EmptyRequiredPathAcceptsEveryHit ==
    fsEnv = Some(<<>>) =>
        \A it \in fsSeen : it.repository # Null => it.repository[1] \in fsRepos

-----------------------------------------------------------------------------
(* setupGracefulShutdown (common.ts) in the CSV import script                *)

MaxCsvRows == 3     \* rows of the CSV file
MaxSignals == 2     \* signals sent to one run

Signals == {"SIGINT", "SIGTERM"}

ExitedWith(code, by) == Some([code |-> code, by |-> by])

\* pool.end() of the driver: the first call ends the pool once no client is
\* checked out; a call on a pool that is ending or ended rejects with "Called
\* end on pool more than once"
EndRejects == gsPool # "open"

\* the handler of either signal: await pool.end(); process.exit(0).  With no
\* client checked out the pool ends in the same turn and the handler exits;
\* with a query in flight the handler waits for its release.  When the call
\* rejects, the async handler's promise rejects unhandled, which ends the
\* process with code 1 (the scripts need the global fetch of Node 18).
GS_Signal(sig) ==
    /\ gsPc # "idle"
    /\ gsExit = Null
    /\ Len(gsSignals) < MaxSignals
    /\ gsSignals' = Append(gsSignals, sig)
    /\ IF EndRejects
       THEN /\ gsExit' = ExitedWith(1, "unhandled rejection")
            /\ UNCHANGED <<gsPool, gsHandler>>
       ELSE IF gsInFlight
       THEN /\ gsPool' = "ending"
            /\ gsHandler' = "awaiting"
            /\ UNCHANGED gsExit
       ELSE /\ gsPool' = "ended"
            /\ gsExit' = ExitedWith(0, "handler")
            /\ UNCHANGED gsHandler
    /\ UNCHANGED <<gsRows, gsI, gsPc, gsInFlight, exceptShutdown>>

\* the top of the loop for index i: urlExists(row.url) sends its query, or
\* the loop is over and main runs its own await pool.end(), whose rejection
\* reaches main().catch and process.exit(1)
StartRow(i) ==
    /\ gsI' = i
    /\ IF i <= gsRows
       THEN /\ gsPc' = "exists"
            /\ gsInFlight' = TRUE
            /\ UNCHANGED <<gsPool, gsExit>>
       ELSE /\ gsInFlight' = FALSE
            /\ IF EndRejects
               THEN /\ gsExit' = ExitedWith(1, "main catch")
                    /\ UNCHANGED <<gsPool, gsPc>>
               ELSE /\ gsPool' = "ended"
                    /\ gsPc' = "returned"
                    /\ UNCHANGED gsExit

\* a query of main is answered and its client released.  The release ends a
\* pool that is ending, and the handler waiting for it exits before main is
\* resumed.
Released ==
    /\ gsPool = "ending"
    /\ gsPool' = "ended"
    /\ gsExit' = ExitedWith(0, "handler")
    /\ gsInFlight' = FALSE
    /\ UNCHANGED <<gsI, gsPc>>

\* const rows = await parseCSV(CSV_FILE_PATH)
GS_Parsed ==
    /\ gsPc = "parse"
    /\ gsExit = Null
    /\ StartRow(1)
    /\ UNCHANGED <<gsRows, gsHandler, gsSignals, exceptShutdown>>

\* const exists = await urlExists(row.url)
GS_UrlExists(exists) ==
    /\ gsPc = "exists"
    /\ gsExit = Null
    /\ \/ Released
       \/ /\ gsPool = "open"
          /\ IF exists
             THEN StartRow(gsI + 1)
             ELSE /\ gsPc' = "fetch"
                  /\ gsInFlight' = FALSE
                  /\ UNCHANGED <<gsI, gsPool, gsExit>>
    /\ UNCHANGED <<gsRows, gsHandler, gsSignals, exceptShutdown>>

\* const meta = await fetchRepoMeta(row.full_name), then the upsert is sent
GS_Fetched(found) ==
    /\ gsPc = "fetch"
    /\ gsExit = Null
    /\ IF found
       THEN /\ gsPc' = "upsert"
            /\ gsInFlight' = TRUE
       ELSE /\ gsPc' = "delay"
            /\ UNCHANGED gsInFlight
    /\ UNCHANGED <<gsRows, gsI, gsPool, gsHandler, gsSignals, gsExit, exceptShutdown>>

\* await upsertRepository(repoData)
GS_Upserted ==
    /\ gsPc = "upsert"
    /\ gsExit = Null
    /\ \/ Released
       \/ /\ gsPool = "open"
          /\ gsPc' = "delay"
          /\ gsInFlight' = FALSE
          /\ UNCHANGED <<gsI, gsPool, gsExit>>
    /\ UNCHANGED <<gsRows, gsHandler, gsSignals, exceptShutdown>>

\* await delay(800)
GS_Delayed ==
    /\ gsPc = "delay"
    /\ gsExit = Null
    /\ StartRow(gsI + 1)
    /\ UNCHANGED <<gsRows, gsHandler, gsSignals, exceptShutdown>>

\* main has returned and the sockets of the ended pool have closed: nothing
\* keeps the event loop alive
GS_EventLoopEmpty ==
    /\ gsPc = "returned"
    /\ gsExit = Null
    /\ gsExit' = ExitedWith(0, "event loop empty")
    /\ UNCHANGED <<gsRows, gsI, gsPc, gsPool, gsInFlight, gsHandler, gsSignals, exceptShutdown>>

InitShutdown ==
    /\ IdleHead
    /\ IdleDelay
    /\ IdleMap
    /\ IdleImport
    /\ EmptyDatabase
    /\ IdleUpsert
    /\ IdleFetch
    /\ IdleScrape
    /\ IdleOnline
    /\ IdleList
    /\ IdleExport
    /\ IdleFilename
    /\ gsRows \in 0..MaxCsvRows
    /\ gsI = 1
    /\ gsPc = "parse"
    /\ gsPool = "open"
    /\ gsInFlight = FALSE
    /\ gsHandler = "none"
    /\ gsSignals = <<>>
    /\ gsExit = Null

NextShutdown ==
    \/ \E sig \in Signals : GS_Signal(sig)
    \/ GS_Parsed
    \/ \E exists \in BOOLEAN : GS_UrlExists(exists)
    \/ \E found \in BOOLEAN : GS_Fetched(found)
    \/ GS_Upserted
    \/ GS_Delayed
    \/ GS_EventLoopEmpty

SpecShutdown == InitShutdown /\ [][NextShutdown]_vars

\* C13: a signal received at any point of the run leads to the pool being
\* ended and then the process exiting with code 0, also when it arrives while
\* a query is in flight or after the script's own pool.end()
C13_SignalEndsPoolThenExitsZero ==
    (gsExit # Null /\ gsSignals # <<>>) =>
        /\ gsExit[1].code = 0
        /\ gsPool = "ended"

-----------------------------------------------------------------------------
(* The CSV import: urlExists and the loop of main                            *)

MaxImportRows == 2  \* rows of the imported CSV file

\* html_url as GitHub reports it, and the same address spelled another way
CanonicalUrl(fn) == <<"u", ":">> \o fn
OtherSpelling(fn) == CanonicalUrl(fn) \o <<"/">>

\* a row of the CSV file: full_name, url and data-origin are read
DataOrigins == {"se2-builds", "manual"}
CsvRows ==
    UNION {[full_name : {fn}, url : {CanonicalUrl(fn), OtherSpelling(fn)},
            origin : DataOrigins] : fn \in FullNames}

\* SELECT id FROM repositories WHERE url = $1; result.rows.length > 0
urlNeverExists(table, url) == FALSE
urlExists(table, url) == \E r \in table : r.url = url

\* repoData as main builds it from meta and the row
repoData(row) ==
    [RepositoryData(row.full_name, 1) EXCEPT
        !.url = CanonicalUrl(row.full_name),
        !.source = {row.origin}]

\* the entry of the row being processed
ThisRow == imRows[imI]

\* the head of the loop for index i: the row's entry is opened and
\* urlExists(row.url) sends its query; after the last row main ends the pool
EnterRow(i) ==
    /\ imI' = i
    /\ IF i <= Len(imRows)
       THEN /\ imPc' = "exists"
            /\ processedCount' = processedCount + 1
       ELSE /\ imPc' = "done"
            /\ UNCHANGED processedCount

\* const rows = await parseCSV(CSV_FILE_PATH)
IM_Parsed ==
    /\ imPc = "parse"
    /\ EnterRow(1)
    /\ UNCHANGED <<repositories, seq, now, upserted, call>>
    /\ UNCHANGED <<imRows, skippedCount, imSavedCount, errorCount, imLog, exceptImport>>

\* const exists = await urlExists(row.url): true skips the row without a
\* delay, false calls fetchRepoMeta; a failed query ends in the catch
IM_UrlExists(ok) ==
    /\ imPc = "exists"
    /\ UNCHANGED <<repositories, seq, now, upserted, call>>
    /\ LET entry == [existed  |-> \E r \in repositories : r.url = ThisRow.url,
                     answered |-> ok,
                     fetched  |-> FALSE,
                     supplied |-> Null,
                     before   |-> repositories,
                     after    |-> repositories,
                     outcome  |-> "open"]
       IN  IF ~ok
           THEN /\ imLog' = Append(imLog, [entry EXCEPT !.outcome = "error"])
                /\ errorCount' = errorCount + 1
                /\ imPc' = "delay"
                /\ UNCHANGED <<imI, processedCount, skippedCount>>
           ELSE IF urlExists(repositories, ThisRow.url)
           THEN /\ imLog' = Append(imLog, [entry EXCEPT !.outcome = "skipped"])
                /\ skippedCount' = skippedCount + 1
                /\ EnterRow(imI + 1)
                /\ UNCHANGED errorCount
           ELSE /\ imLog' = Append(imLog, [entry EXCEPT !.fetched = TRUE])
                /\ imPc' = "fetch"
                /\ UNCHANGED <<imI, processedCount, skippedCount, errorCount>>
    /\ UNCHANGED <<imRows, imSavedCount, exceptImport>>

\* const meta = await fetchRepoMeta(row.full_name): the metadata, null, or a
\* thrown network error; with the metadata, upsertRepository sends its query
IM_Fetched(result) ==
    /\ imPc = "fetch"
    /\ UNCHANGED <<repositories, seq, now, upserted, call>>
    /\ IF result = "meta"
       THEN /\ imPc' = "upsert"
            /\ imLog' = [imLog EXCEPT ![imI] =
                            [@ EXCEPT !.supplied = Some(repoData(ThisRow).source)]]
            /\ UNCHANGED errorCount
       ELSE /\ imPc' = "delay"
            /\ imLog' = [imLog EXCEPT ![imI] = [@ EXCEPT !.outcome = "error"]]
            /\ errorCount' = errorCount + 1
    /\ UNCHANGED <<imRows, imI, processedCount, skippedCount, imSavedCount, exceptImport>>

\* await upsertRepository(repoData); savedCount++, or the catch
IM_Upserted(ok) ==
    /\ imPc = "upsert"
    /\ imPc' = "delay"
    /\ IF ok
       THEN /\ upsertRepository(repoData(ThisRow))
            /\ imSavedCount' = imSavedCount + 1
            /\ imLog' = [imLog EXCEPT ![imI] = [@ EXCEPT !.outcome = "saved"]]
            /\ UNCHANGED errorCount
       ELSE /\ QueryFails
            /\ errorCount' = errorCount + 1
            /\ imLog' = [imLog EXCEPT ![imI] = [@ EXCEPT !.outcome = "error"]]
            /\ UNCHANGED imSavedCount
    /\ UNCHANGED <<imRows, imI, processedCount, skippedCount, exceptImport>>

\* await delay(800), then the next row
IM_Delayed ==
    /\ imPc = "delay"
    /\ UNCHANGED <<repositories, seq, now, upserted, call>>
    /\ imLog' = [imLog EXCEPT ![imI] = [@ EXCEPT !.after = repositories]]
    /\ EnterRow(imI + 1)
    /\ UNCHANGED <<imRows, skippedCount, imSavedCount, errorCount, exceptImport>>

\* the table as the collection scripts left it: some of the repositories,
\* each under the url GitHub reported
ImportedBefore(fn) ==
    [InsertedRow(RepositoryData(fn, 1), IF OwnerOf(fn) = <<"a">> THEN 1 ELSE 2, 0)
        EXCEPT !.url = CanonicalUrl(fn)]
ImportTables == {{ImportedBefore(fn) : fn \in S} : S \in SUBSET FullNames}

InitImport ==
    /\ IdleHead
    /\ IdleDelay
    /\ IdleMap
    /\ repositories \in ImportTables
    /\ seq = 2
    /\ now = 0
    /\ IdleUpsert
    /\ IdleFetch
    /\ IdleScrape
    /\ IdleOnline
    /\ IdleList
    /\ IdleExport
    /\ IdleFilename
    /\ IdleShutdown
    /\ imRows \in SeqsUpTo(CsvRows, MaxImportRows)
    /\ imI = 1
    /\ imPc = "parse"
    /\ processedCount = 0
    /\ skippedCount = 0
    /\ imSavedCount = 0
    /\ errorCount = 0
    /\ imLog = <<>>

NextImport ==
    \/ IM_Parsed
    \/ \E ok \in BOOLEAN : IM_UrlExists(ok)
    \/ \E result \in {"meta", "null", "throw"} : IM_Fetched(result)
    \/ \E ok \in BOOLEAN : IM_Upserted(ok)
    \/ IM_Delayed

SpecImport == InitImport /\ [][NextImport]_vars

\* ---- what is claimed of the import

\* the rows main has left
Finished == {k \in 1..Len(imLog) : k < imI}
WithOutcome(outcome) == {k \in 1..Len(imLog) : imLog[k].outcome = outcome}

\* C14: a row whose url is in the table is not fetched and nothing is written
\* for it, and it is counted as skipped; only rows whose url is absent are
\* fetched and saved, and they are saved with the row's data-origin as source
C14_ExistingUrlIsSkipped ==
    /\ \A k \in Finished :
          LET entry == imLog[k]
              row == imRows[k]
          IN  /\ entry.existed =>
                    /\ ~entry.fetched
                    /\ entry.after = entry.before
                    /\ entry.answered => entry.outcome = "skipped"
              /\ entry.fetched \/ entry.after # entry.before => ~entry.existed
              /\ entry.outcome = "saved" =>
                    /\ entry.fetched
                    /\ entry.supplied = Some({row.origin})
                    /\ \E r \in entry.after : /\ r.full_name = row.full_name
                                              /\ row.origin \in r.source
              /\ entry.outcome # "saved" => entry.after = entry.before
    /\ skippedCount = Cardinality(WithOutcome("skipped"))
    /\ imSavedCount = Cardinality(WithOutcome("saved"))

\* a run that skipped a row whose url was stored and saved a row whose url,
\* spelled another way, was not
C14_Witness ==
    /\ imPc = "done"
    /\ \E j, k \in Finished :
          /\ imLog[j].existed /\ imLog[j].outcome = "skipped"
          /\ ~imLog[k].existed /\ imLog[k].outcome = "saved"
          /\ imLog[k].before # {}

-----------------------------------------------------------------------------
(* mapWithConcurrency (fetch-dependents-api.ts)                              *)

MaxItems == 4       \* longest items array
MaxLimit == 2       \* largest limit

Min(a, b) == IF a < b THEN a ELSE b

\* how many mapper calls the while loop of next() starts:
\* while (active < limit && idx < items.length)
StartsPerCall(active, limit, idx, length) == Min(limit, length - idx)
Starts(active, limit, idx, length) ==
    IF active < limit /\ idx < length THEN Min(limit - active, length - idx) ELSE 0

\* next(), as the executor calls it and as a finally callback calls it after
\* its active--: the promise is resolved when nothing is left and nothing
\* runs, else the loop starts the calls of the next indices
next(active, mapper) ==
    IF mcIdx >= mcItems /\ active = 0
    THEN /\ mcPromise' = IF mcPromise = "pending" THEN "resolved" ELSE mcPromise
         /\ mcIdx' = mcIdx
         /\ mcActive' = active
         /\ mcMapper' = mapper
    ELSE LET n == Starts(active, mcLimit, mcIdx, mcItems)
         IN  /\ mcIdx' = mcIdx + n
             /\ mcActive' = active + n
             /\ mcMapper' = [k \in DOMAIN mapper |->
                                IF k >= mcIdx /\ k < mcIdx + n THEN "running" ELSE mapper[k]]
             /\ UNCHANGED mcPromise

\* return new Promise((resolve, reject) => { ...; next(); })
MC_Call ==
    /\ mcPc = "call"
    /\ mcPc' = "called"
    /\ next(0, mcMapper)
    /\ UNCHANGED <<mcItems, mcLimit, mcResults, exceptMap>>

\* the promise of the mapper call of index k settles
MC_Settle(k, fulfilled) ==
    /\ mcPc = "called"
    /\ k \in DOMAIN mcMapper
    /\ mcMapper[k] = "running"
    /\ mcMapper' = [mcMapper EXCEPT ![k] = IF fulfilled THEN "fulfilled" ELSE "rejected"]
    /\ UNCHANGED <<mcPc, mcItems, mcLimit, mcIdx, mcActive, mcResults, mcPromise, exceptMap>>

\* .then(res => { results[currentIndex] = res; }).catch(err => { reject(err); })
MC_ThenCatch(k) ==
    /\ mcPc = "called"
    /\ k \in DOMAIN mcMapper
    /\ mcMapper[k] \in {"fulfilled", "rejected"}
    /\ mcMapper' = [mcMapper EXCEPT ![k] = "handled"]
    /\ IF mcMapper[k] = "fulfilled"
       THEN /\ mcResults' = [mcResults EXCEPT ![k] = Some(k)]
            /\ UNCHANGED mcPromise
       ELSE /\ mcPromise' = IF mcPromise = "pending" THEN "rejected" ELSE mcPromise
            /\ UNCHANGED mcResults
    /\ UNCHANGED <<mcPc, mcItems, mcLimit, mcIdx, mcActive, exceptMap>>

\* .finally(() => { active--; next(); })
MC_Finally(k) ==
    /\ mcPc = "called"
    /\ k \in DOMAIN mcMapper
    /\ mcMapper[k] = "handled"
    /\ next(mcActive - 1, [mcMapper EXCEPT ![k] = "finished"])
    /\ UNCHANGED <<mcPc, mcItems, mcLimit, mcResults, exceptMap>>

InitMap ==
    /\ IdleHead
    /\ IdleDelay
    /\ EmptyDatabase
    /\ IdleUpsert
    /\ IdleFetch
    /\ IdleScrape
    /\ IdleOnline
    /\ IdleList
    /\ IdleExport
    /\ IdleFilename
    /\ IdleShutdown
    /\ IdleImport
    /\ mcPc = "call"
    /\ mcItems \in 0..MaxItems
    /\ mcLimit \in 0..MaxLimit
    /\ mcIdx = 0
    /\ mcActive = 0
    /\ mcMapper = [k \in 0..(mcItems - 1) |-> "none"]
    /\ mcResults = [k \in 0..(mcItems - 1) |-> Null]
    /\ mcPromise = "pending"

NextMap ==
    \/ MC_Call
    \/ \E k \in 0..(MaxItems - 1), fulfilled \in BOOLEAN : MC_Settle(k, fulfilled)
    \/ \E k \in 0..(MaxItems - 1) : MC_ThenCatch(k)
    \/ \E k \in 0..(MaxItems - 1) : MC_Finally(k)

SpecMap == InitMap /\ [][NextMap]_vars

\* ---- what is claimed of mapWithConcurrency

Unsettled == {k \in DOMAIN mcMapper : mcMapper[k] = "running"}
Counted == {k \in DOMAIN mcMapper : mcMapper[k] \in {"running", "fulfilled", "rejected", "handled"}}

\* C15: at any moment at most `limit` mapper calls are started and not yet
\* settled, however the completions interleave (the calls counted by active
\* are those whose finally callback has not run, and they are at most limit)
C15_AtMostLimitUnsettled ==
    /\ Cardinality(Unsettled) <= mcLimit
    /\ mcActive = Cardinality(Counted)
    /\ mcActive <= mcLimit

\* the limit is reached again after a call has finished, with items left
C15_Witness ==
    /\ mcLimit >= 2
    /\ Cardinality(Unsettled) = mcLimit
    /\ \E k \in DOMAIN mcMapper : mcMapper[k] = "finished"
    /\ mcIdx < mcItems

-----------------------------------------------------------------------------
(* The rate-limit backoff of fetchRepoMeta: how long a 403 makes it wait     *)

MaxResetSec == 12   \* latest reset time a 403 answer names, in seconds
MaxBackoffs == 2    \* 403 answers given to one call

\* Math.floor(Date.now() / 1000)
nowSec(nowMs) == nowMs \div 1000

\* reset ? (parseInt(reset, 10) - nowSec + 2) * 1000 : 30_000, NaN being Null
waitMs(reset, nowMs) ==
    IF reset = Null \/ reset = Some(<<>>) THEN Some(30000)
    ELSE IF parseInt(reset[1]) = Null THEN Null
    ELSE Some((parseInt(reset[1])[1] - nowSec(nowMs) + 2) * 1000)

\* Math.max(waitMs, 5000): NaN when waitMs is NaN
unfloored(wait) == wait
mathMax5000(wait) ==
    IF wait = Null THEN Null
    ELSE IF wait[1] > 5000 THEN wait ELSE Some(5000)

\* setTimeout(resolve, ms): a delay that is NaN or below 1 is taken as 1
Timeout(ms) == IF ms = Null \/ ms[1] < 1 THEN 1 ELSE ms[1]

\* the header as a 403 answer can carry it: absent, empty, a timestamp in
\* seconds, or something else
ResetHeaders ==
    {Null, Some(<<>>), Some(<<"x">>)} \cup {Some(DecimalDigits(n)) : n \in 0..MaxResetSec}

\* const res = await fetch(url, ...) answered 403: the wait is computed and
\* delay() is called
DL_RateLimited(reset) ==
    /\ dlPc = "fetch"
    /\ dl403 < MaxBackoffs
    /\ dl403' = dl403 + 1
    /\ dlReset' = reset
    /\ dlNowSec' = nowSec(dlNowMs)
    /\ dlDelay' = mathMax5000(waitMs(reset, dlNowMs))
    /\ dlPc' = "sleep"
    /\ UNCHANGED <<dlNowMs, exceptDelay>>

\* await delay(...) is over: return fetchRepoMeta(fullName) fetches again
DL_Retry ==
    /\ dlPc = "sleep"
    /\ dlNowMs' = dlNowMs + Timeout(dlDelay)
    /\ dlPc' = "fetch"
    /\ UNCHANGED <<dlReset, dlNowSec, dlDelay, dl403, exceptDelay>>

\* any other answer ends the call
DL_Answered ==
    /\ dlPc = "fetch"
    /\ dlPc' = "done"
    /\ UNCHANGED <<dlNowMs, dlReset, dlNowSec, dlDelay, dl403, exceptDelay>>

InitDelay ==
    /\ IdleHead
    /\ EmptyDatabase
    /\ IdleUpsert
    /\ IdleFetch
    /\ IdleScrape
    /\ IdleOnline
    /\ IdleList
    /\ IdleExport
    /\ IdleFilename
    /\ IdleShutdown
    /\ IdleImport
    /\ IdleMap
    /\ dlPc = "fetch"
    /\ dlNowMs \in {0, 999, 3500, 8000}
    /\ dlReset = Null
    /\ dlNowSec = 0
    /\ dlDelay = Null
    /\ dl403 = 0

NextDelay ==
    \/ \E reset \in ResetHeaders : DL_RateLimited(reset)
    \/ DL_Retry
    \/ DL_Answered

SpecDelay == InitDelay /\ [][NextDelay]_vars

\* ---- what is claimed of the backoff

\* the header is the decimal spelling of a timestamp
IsTimestamp(header) == \E n \in 0..MaxResetSec : header = Some(DecimalDigits(n))
TimestampOf(header) == CHOOSE n \in 0..MaxResetSec : header = Some(DecimalDigits(n))

\* C16: after a 403 the delay is max((reset - now + 2) * 1000, 5000) ms when
\* the header carries an integer timestamp and 30000 ms when it is absent, so
\* it is at least 5000 ms for every reset time, past ones included
C16_DelayIsFlooredAt5000 ==
    dl403 > 0 =>
        /\ dlReset = Null => dlDelay = Some(30000)
        /\ IsTimestamp(dlReset) =>
              LET computed == (TimestampOf(dlReset) - dlNowSec + 2) * 1000
              IN  /\ dlDelay # Null
                  /\ dlDelay[1] = IF computed > 5000 THEN computed ELSE 5000
                  /\ dlDelay[1] >= 5000

\* a second 403 whose reset time has passed while the first delay ran
C16_Witness ==
    /\ dlPc = "sleep"
    /\ dl403 = 2
    /\ IsTimestamp(dlReset)
    /\ TimestampOf(dlReset) < dlNowSec
    /\ dlDelay = Some(5000)

-----------------------------------------------------------------------------
(* headWithRetry (check-online script)                                       *)

MaxRetries == 3     \* largest maxRetries

\* what a fetch resolves with: a status and the retry-after header, which is
\* absent, a number of seconds, or an HTTP date
RetryAfterHeaders == {Null, Some(<<"2">>), Some(<<"W", "e", "d">>)}
Responses ==
    [status : {200, 404, 405}, retryAfter : {Null}]
    \cup [status : {429}, retryAfter : RetryAfterHeaders]
\* a fetch that rejects
NetworkError == [status |-> Thrown, retryAfter |-> Null]

\* retryAfter ? parseInt(retryAfter, 10) * 1000 : 30_000, NaN being Null
retryWaitMs(retryAfter) ==
    IF retryAfter = Null \/ retryAfter = Some(<<>>) THEN Some(30000)
    ELSE IF parseInt(retryAfter[1]) = Null THEN Null
    ELSE Some(parseInt(retryAfter[1])[1] * 1000)

\* what the log keeps of a request and of a delay
Requested(method, res) ==
    [kind |-> method, attempt |-> hrAttempt, status |-> res.status,
     retryAfter |-> res.retryAfter, ms |-> Null]
Delayed(ms) ==
    [kind |-> "delay", attempt |-> hrAttempt, status |-> Thrown, retryAfter |-> Null, ms |-> ms]

\* while (attempt < maxRetries)
OneMoreAttempt(attempt, max) == attempt <= max
LoopCondition(attempt, max) == attempt < max

\* the head of the loop: attempt++ and the HEAD is sent, or the loop is left
\* and the final GET is sent
LoopHead ==
    IF LoopCondition(hrAttempt, hrMax)
    THEN /\ hrAttempt' = hrAttempt + 1
         /\ hrPc' = "head"
    ELSE /\ hrPc' = "final"
         /\ UNCHANGED hrAttempt

\* a response inside the loop: 429 waits and continues, any other is returned
Handle(method, res) ==
    IF res.status = 429
    THEN /\ hrLog' = hrLog \o <<Requested(method, res), Delayed(retryWaitMs(res.retryAfter))>>
         /\ hrPc' = "wait"
         /\ UNCHANGED hrResult
    ELSE /\ hrLog' = Append(hrLog, Requested(method, res))
         /\ hrPc' = "returned"
         /\ hrResult' = Some(res)

\* catch (err): wait 5_000 * attempt
Caught(method) ==
    /\ hrLog' = hrLog \o <<Requested(method, NetworkError), Delayed(Some(5000 * hrAttempt))>>
    /\ hrPc' = "wait"
    /\ UNCHANGED hrResult

\* let res = await fetch(url, { method: "HEAD" })
HR_Head(res) ==
    /\ hrPc = "head"
    /\ IF res = NetworkError THEN Caught("HEAD")
       ELSE IF res.status = 405
       THEN /\ hrLog' = Append(hrLog, Requested("HEAD", res))
            /\ hrPc' = "get"
            /\ UNCHANGED hrResult
       ELSE Handle("HEAD", res)
    /\ UNCHANGED <<hrMax, hrAttempt, exceptHead>>

\* res = await fetch(url, { method: "GET" }) after a 405
HR_Get(res) ==
    /\ hrPc = "get"
    /\ IF res = NetworkError THEN Caught("GET") ELSE Handle("GET", res)
    /\ UNCHANGED <<hrMax, hrAttempt, exceptHead>>

\* headWithRetry(url, maxRetries) is called: let attempt = 0 and the loop head
HR_Call ==
    /\ hrPc = "call"
    /\ LoopHead
    /\ UNCHANGED <<hrMax, hrLog, hrResult, exceptHead>>

\* await delay(waitMs) is over
HR_Waited ==
    /\ hrPc = "wait"
    /\ LoopHead
    /\ UNCHANGED <<hrMax, hrLog, hrResult, exceptHead>>

\* return fetch(url, { method: "GET" }): its response whatever the status, or
\* its rejection
HR_Final(res) ==
    /\ hrPc = "final"
    /\ hrLog' = Append(hrLog, [Requested("GET", res) EXCEPT !.kind = "final GET"])
    /\ IF res = NetworkError
       THEN /\ hrPc' = "thrown"
            /\ UNCHANGED hrResult
       ELSE /\ hrPc' = "returned"
            /\ hrResult' = Some(res)
    /\ UNCHANGED <<hrMax, hrAttempt, exceptHead>>

InitHead ==
    /\ EmptyDatabase
    /\ IdleUpsert
    /\ IdleFetch
    /\ IdleScrape
    /\ IdleOnline
    /\ IdleList
    /\ IdleExport
    /\ IdleFilename
    /\ IdleShutdown
    /\ IdleImport
    /\ IdleMap
    /\ IdleDelay
    /\ hrMax \in 0..MaxRetries
    /\ hrAttempt = 0
    /\ hrPc = "call"
    /\ hrLog = <<>>
    /\ hrResult = Null

NextHead ==
    \/ HR_Call
    \/ \E res \in Responses \cup {NetworkError} : HR_Head(res)
    \/ \E res \in Responses \cup {NetworkError} : HR_Get(res)
    \/ HR_Waited
    \/ \E res \in Responses \cup {NetworkError} : HR_Final(res)

SpecHead == InitHead /\ [][NextHead]_vars

\* ---- what is claimed of headWithRetry

Entries(kind) == {k \in 1..Len(hrLog) : hrLog[k].kind = kind}
\* the requests whose answer ended a loop attempt without a return
Failed(k) == hrLog[k].kind \in {"HEAD", "GET"} /\ hrLog[k].status \in {429, Thrown}
IsSeconds(header) == header # Null /\ header[1] # <<>> /\ \A j \in 1..Len(header[1]) : IsDigit(header[1][j])

\* C17: at most maxRetries attempts, each a HEAD plus one GET after a 405;
\* after a 429 the wait is retry-after seconds, 30 s without the header, after
\* a network error 5 s times the attempt; the first response that is not a 429
\* is returned; after maxRetries failed attempts exactly one final GET is made
\* and its outcome returned or thrown; the call always ends
C17_BoundedRetriesThenOneGet ==
    /\ hrAttempt <= hrMax
    /\ Cardinality(Entries("HEAD")) = (IF hrPc = "head" THEN hrAttempt - 1 ELSE hrAttempt)
    /\ \A k \in Entries("HEAD") : Cardinality({j \in Entries("HEAD") : j < k}) = hrLog[k].attempt - 1
    /\ \A k \in Entries("GET") :
          /\ k > 1
          /\ hrLog[k - 1].kind = "HEAD"
          /\ hrLog[k - 1].status = 405
          /\ hrLog[k - 1].attempt = hrLog[k].attempt
    /\ \A k \in Entries("HEAD") : hrLog[k].status = 405 /\ k < Len(hrLog) => hrLog[k + 1].kind = "GET"
    /\ \A k \in Entries("delay") :
          /\ k > 1
          /\ Failed(k - 1)
          /\ hrLog[k - 1].status = Thrown => hrLog[k].ms = Some(5000 * hrLog[k].attempt)
          /\ hrLog[k - 1].status = 429 /\ hrLog[k - 1].retryAfter = Null =>
                hrLog[k].ms = Some(30000)
          /\ hrLog[k - 1].status = 429 /\ IsSeconds(hrLog[k - 1].retryAfter) =>
                hrLog[k].ms = Some(LeadingNumber(hrLog[k - 1].retryAfter[1], 0) * 1000)
    /\ \A k \in 1..Len(hrLog) : Failed(k) /\ k < Len(hrLog) => hrLog[k + 1].kind = "delay"
    /\ \A k \in 1..Len(hrLog) :
          hrLog[k].kind \in {"HEAD", "GET"} /\ hrLog[k].status \notin {405, 429, Thrown}
              => /\ k = Len(hrLog)
                 /\ hrPc = "returned"
                 /\ hrResult = Some([status |-> hrLog[k].status, retryAfter |-> hrLog[k].retryAfter])
    /\ \A k \in Entries("GET") :
          hrLog[k].status = 405 => k = Len(hrLog) /\ hrPc = "returned" /\ hrResult[1].status = 405
    /\ Cardinality(Entries("final GET")) <= 1
    /\ \A k \in Entries("final GET") :
          /\ k = Len(hrLog)
          /\ hrAttempt = hrMax
          /\ Cardinality(Entries("delay")) = hrMax
          /\ IF hrLog[k].status = Thrown
             THEN hrPc = "thrown" /\ hrResult = Null
             ELSE hrPc = "returned" /\ hrResult[1].status = hrLog[k].status
    /\ hrPc \in {"returned", "thrown"} =>
          \/ Entries("final GET") # {}
          \/ hrLog[Len(hrLog)].status \notin {429, Thrown}
    /\ hrPc = "final" => Cardinality(Entries("delay")) = hrMax /\ hrAttempt = hrMax
    /\ Len(hrLog) <= 3 * hrMax + 1
    /\ hrPc \in {"returned", "thrown"} \/ ENABLED NextHead

\* every attempt failed, one on a 429 that named its wait, one on a network
\* error, one on the GET after a 405, and the final GET was answered
C17_Witness ==
    /\ hrPc = "returned"
    /\ hrMax = MaxRetries
    /\ Entries("final GET") # {}
    /\ \E k \in Entries("delay") : hrLog[k - 1].status = 429 /\ hrLog[k].ms = Some(2000)
    /\ \E k \in Entries("delay") : hrLog[k - 1].status = Thrown /\ hrLog[k].attempt > 1
    /\ \E k \in Entries("GET") : hrLog[k].status = 429

====
